---- MODULE Spec2Model ----
(***************************************************************************)
(* A model of the content-extraction pipeline of documents_processor.py:   *)
(* the archive member path sanitizer, the unique naming service, the page  *)
(* limit resolution and the page/sheet-bounded handlers, the ZIP/RAR       *)
(* archive handlers and the batch orchestrator.                            *)
(*                                                                         *)
(* Strings of the program are sequences of one-character strings, so that  *)
(* splitting, stripping, lower-casing and formatting are computed as the   *)
(* code computes them.  Paths follow posixpath.                            *)
(***************************************************************************)
EXTENDS Integers, Sequences, FiniteSets, TLC

VARIABLES
    \* -- _safe_join_path applied by the archive loop to one member name
    arcname,        \* the raw member name (untrusted)
    pathPc,         \* "start" | "extracted" | "skipped"
    dest,           \* the destination path computed for the member
    \* -- the unique naming service
    counter,        \* _generate_unique_image_name.counter (0: not yet set)
    clock,          \* the wall clock, in seconds
    issued,         \* the calls made so far, with the names returned
    \* -- the page limit and the page- and sheet-bearing handlers
    environ,        \* os.environ: DISABLE_PAGE_LIMIT and MAX_DOCUMENT_PAGES
    limitCache,     \* the lru_cache of _get_page_limit: <<>> or <<limit>>
    doc,            \* the unit last processed by a page/sheet handler
    \* -- the archive handlers
    rarfileInstalled, \* whether the optional rarfile module was imported
    fs,             \* the paths of the files on disk: under media_dir,
                    \* images/ and tables/
    archive,        \* the archive file the unit under study is created for
    unit,           \* that unit, before and after its handler ran
    archPc,         \* "start" | "handled"
    \* -- batch_process_folder
    walk,           \* the files of the input tree, in the order os.walk and
                    \* sorted(files) yield them
    walked,         \* how many of them the loop has taken
    returnDocs,     \* the return_docs argument
    outputFile,     \* whether an output_file was given
    results,        \* the lines of the report
    docs,           \* the doc_info records
    handled,        \* the files handed to Document.process, with the outcome
    report,         \* the report file, once written
    returned,       \* the list returned to the caller
    batchPc,        \* "walking" | "returned" | "raised"
    \* -- the content of files
    stored,         \* what the staged files and the table artifacts hold,
                    \* by path, where a handler's text is computed from it
    \* -- optional capabilities
    numbersParserAvailable,  \* NUMBERS_PARSER_AVAILABLE
    \* -- callers of the naming service running side by side
    callers,        \* by caller: where it is in the call, and its locals
    \* -- the nested calls of Document.process
    callStack,      \* the frames of the calls under way, outermost first
    descent,        \* the state of the outermost call and what it reached
    \* -- cleanup_before_batch_processing
    cleanup,        \* the arguments, the position and the locals of the call
    \* -- TieredCacheManager
    cacheManager    \* the memory tier, the disk tier and the last get

pathVars == <<arcname, pathPc, dest>>
nameVars == <<counter, clock, issued>>
pageVars == <<environ, limitCache, doc>>
archVars == <<rarfileInstalled, fs, archive, unit, archPc>>
batchVars == <<walk, walked, returnDocs, outputFile, results, docs, handled,
               report, returned, batchPc>>

laterVars == <<callers, callStack, descent, cleanup, cacheManager>>
otherVars == <<stored, numbersParserAvailable, laterVars>>

vars == <<pathVars, nameVars, pageVars, archVars, batchVars, otherVars>>

notPathVars == <<nameVars, pageVars, archVars, batchVars, otherVars>>
notNameVars == <<pathVars, pageVars, archVars, batchVars, otherVars>>
notPageVars == <<pathVars, nameVars, archVars, batchVars, otherVars>>
notArchVars == <<pathVars, nameVars, pageVars, batchVars, otherVars>>
\* the batch run writes fs and reads rarfileInstalled
notBatchVars ==
    <<pathVars, nameVars, pageVars, archive, unit, archPc, otherVars>>

----------------------------------------------------------------------------
(* The values the variables of one part keep while another part runs *)

NoPath == <<"(", "n", "o", "n", "e", ")">>

IdlePath ==
    /\ arcname = <<>>
    /\ pathPc = "idle"
    /\ dest = NoPath

IdleName ==
    /\ counter = 0
    /\ clock = 0
    /\ issued = <<>>

Unset == [set |-> FALSE, value |-> <<>>]

NoDoc ==
    [kind |-> "none", total |-> 0, processed |-> <<>>, limitFlag |-> FALSE,
     error |-> "none"]

IdlePage ==
    /\ environ = [disable |-> Unset, maxPages |-> Unset]
    /\ limitCache = <<>>
    /\ doc = NoDoc

NoArchive ==
    [fileName |-> <<>>, size |-> 0, container |-> "ok", listing |-> <<>>]

\* Document.__init__: the fields of a unit before its handler runs
NewUnit(fileName, size) ==
    [fileName |-> fileName, size |-> size, text |-> <<>>, images |-> <<>>,
     tables |-> <<>>, meta |-> {}, opened |-> FALSE, reads |-> <<>>,
     nested |-> <<>>, raised |-> "none",
     \* the paths this unit and its nested units wrote, in order
     writes |-> <<>>,
     \* the directories this unit created
     dirs |-> <<>>]

IdleArch ==
    /\ rarfileInstalled = TRUE
    /\ fs = {}
    /\ archive = NoArchive
    /\ unit = NewUnit(<<>>, 0)
    /\ archPc = "idle"

NoContent == [path \in {} |-> <<>>]

NoCallers == <<>>
NoDescent == [pc |-> "idle", deepest |-> 0]
NoCleanup == [pc |-> "idle"]
NoCache == [pc |-> "idle"]

IdleLater ==
    /\ callers = NoCallers
    /\ callStack = <<>>
    /\ descent = NoDescent
    /\ cleanup = NoCleanup
    /\ cacheManager = NoCache

IdleStore ==
    /\ stored = NoContent
    /\ numbersParserAvailable = TRUE
    /\ IdleLater

NoReport == [written |-> FALSE, lines |-> <<>>]

IdleBatch ==
    /\ walk = <<>>
    /\ walked = 0
    /\ returnDocs = FALSE
    /\ outputFile = FALSE
    /\ results = <<>>
    /\ docs = <<>>
    /\ handled = <<>>
    /\ report = NoReport
    /\ returned = <<>>
    /\ batchPc = "idle"

----------------------------------------------------------------------------
(* Characters and strings *)

Digits == {"0", "1", "2", "3", "4", "5", "6", "7", "8", "9"}

LowerLetters ==
    {"a", "b", "c", "d", "e", "f", "g", "h", "i", "j", "k", "l", "m",
     "n", "o", "p", "q", "r", "s", "t", "u", "v", "w", "x", "y", "z"}

UpperLetters ==
    {"A", "B", "C", "D", "E", "F", "G", "H", "I", "J", "K", "L", "M",
     "N", "O", "P", "Q", "R", "S", "T", "U", "V", "W", "X", "Y", "Z"}

UpperSeq ==
    <<"A", "B", "C", "D", "E", "F", "G", "H", "I", "J", "K", "L", "M",
      "N", "O", "P", "Q", "R", "S", "T", "U", "V", "W", "X", "Y", "Z">>

LowerSeq ==
    <<"a", "b", "c", "d", "e", "f", "g", "h", "i", "j", "k", "l", "m",
      "n", "o", "p", "q", "r", "s", "t", "u", "v", "w", "x", "y", "z">>

\* str.isalnum() on one character
IsAlnum(c) == c \in Digits \cup LowerLetters \cup UpperLetters

\* str.lower() on one character, and on a string
LowerChar(c) ==
    IF c \in UpperLetters
    THEN LowerSeq[CHOOSE i \in 1..Len(UpperSeq) : UpperSeq[i] = c]
    ELSE c

Lower(s) == [i \in 1..Len(s) |-> LowerChar(s[i])]

\* the characters of s that satisfy Keep, in order
RECURSIVE FilterChars(_, _)
FilterChars(s, keep) ==
    IF s = <<>> THEN <<>>
    ELSE (IF Head(s) \in keep THEN <<Head(s)>> ELSE <<>>)
         \o FilterChars(Tail(s), keep)

CharsOf(s) == {s[i] : i \in 1..Len(s)}

\* _safe_name: keep alphanumerics, underscore and hyphen
SafeName(s) ==
    FilterChars(s, {c \in CharsOf(s) : IsAlnum(c) \/ c \in {"_", "-"}})

\* the last index of character c in s, 0 when absent (str.rfind + 1)
RFind(s, c) ==
    LET hits == {i \in 1..Len(s) : s[i] = c}
    IN IF hits = {} THEN 0 ELSE CHOOSE i \in hits : \A j \in hits : j <= i

\* str.endswith / str.startswith
EndsWith(s, suffix) ==
    /\ Len(suffix) <= Len(s)
    /\ SubSeq(s, Len(s) - Len(suffix) + 1, Len(s)) = suffix

StartsWith(s, prefix) ==
    /\ Len(prefix) <= Len(s)
    /\ SubSeq(s, 1, Len(prefix)) = prefix

\* str.replace(old, new) for one-character old and new
ReplaceChar(s, old, new) == [i \in 1..Len(s) |-> IF s[i] = old THEN new ELSE s[i]]

\* str.lstrip(c) for one character c
RECURSIVE LStrip(_, _)
LStrip(s, c) ==
    IF s # <<>> /\ Head(s) = c THEN LStrip(Tail(s), c) ELSE s

\* str.split(sep) for a one-character sep: always at least one component
RECURSIVE SplitAcc(_, _, _)
SplitAcc(s, sep, cur) ==
    IF s = <<>> THEN <<cur>>
    ELSE IF Head(s) = sep THEN <<cur>> \o SplitAcc(Tail(s), sep, <<>>)
    ELSE SplitAcc(Tail(s), sep, Append(cur, Head(s)))

Split(s, sep) == SplitAcc(s, sep, <<>>)

\* os.path.splitext (posixpath): the extension of the last component, where
\* leading dots of the component do not start an extension
SplitExt(p) ==
    LET sepIndex == RFind(p, "/")
        dotIndex == RFind(p, ".")
        nameStart == sepIndex + 1
        nonDot == {i \in nameStart..(dotIndex - 1) : p[i] # "."}
    IN IF dotIndex > sepIndex /\ nonDot # {}
       THEN <<SubSeq(p, 1, dotIndex - 1), SubSeq(p, dotIndex, Len(p))>>
       ELSE <<p, <<>>>>

----------------------------------------------------------------------------
(* Extensions allowed inside archives *)

SUPPORTED_IMAGE_FORMATS ==
    {<<".", "j", "p", "g">>, <<".", "j", "p", "e", "g">>,
     <<".", "p", "n", "g">>, <<".", "h", "e", "i", "c">>,
     <<".", "h", "e", "i", "f">>, <<".", "g", "i", "f">>,
     <<".", "t", "i", "f", "f">>, <<".", "t", "i", "f">>,
     <<".", "b", "m", "p">>}

ARCHIVE_ALLOWED_EXTS ==
    SUPPORTED_IMAGE_FORMATS \cup
    {<<".", "p", "d", "f">>, <<".", "t", "x", "t">>,
     <<".", "p", "a", "g", "e", "s">>,
     <<".", "n", "u", "m", "b", "e", "r", "s">>, <<".", "x", "l", "s", "x">>,
     <<".", "x", "l", "s">>, <<".", "c", "s", "v">>,
     <<".", "j", "s", "o", "n">>, <<".", "p", "y">>,
     <<".", "h", "t", "m", "l">>, <<".", "c", "m", "s">>,
     <<".", "c", "s", "s">>, <<".", "e", "m", "l">>,
     <<".", "m", "b", "o", "x">>, <<".", "r", "t", "f">>, <<".", "m", "d">>,
     <<".", "m", "a", "r", "k", "d", "o", "w", "n">>, <<".", "o", "d", "t">>,
     <<".", "e", "p", "u", "b">>, <<".", "d", "o", "c", "x">>,
     <<".", "d", "o", "c">>, <<".", "p", "p", "t", "x">>,
     <<".", "p", "p", "t">>}

----------------------------------------------------------------------------
(* Paths (posixpath) *)

\* os.path.join(a, b)
JoinPath(a, b) ==
    IF b # <<>> /\ Head(b) = "/" THEN b
    ELSE IF a = <<>> \/ a[Len(a)] = "/" THEN a \o b
    ELSE a \o <<"/">> \o b

\* os.path.join(root, *parts)
RECURSIVE JoinAll(_, _)
JoinAll(path, parts) ==
    IF parts = <<>> THEN path
    ELSE JoinAll(JoinPath(path, Head(parts)), Tail(parts))

\* The directory entries a path resolves through: empty and "." components
\* are dropped and ".." leaves the directory reached so far (at the top of
\* an absolute path it stays there, at the top of a relative one it is kept).
RECURSIVE ResolveComps(_, _, _)
ResolveComps(comps, isAbs, acc) ==
    IF comps = <<>> THEN acc
    ELSE LET c == Head(comps)
             rest == Tail(comps)
         IN IF c = <<>> \/ c = <<".">> THEN ResolveComps(rest, isAbs, acc)
            ELSE IF c = <<".", ".">>
            THEN IF acc # <<>> /\ acc[Len(acc)] # <<".", ".">>
                 THEN ResolveComps(rest, isAbs, SubSeq(acc, 1, Len(acc) - 1))
                 ELSE IF isAbs THEN ResolveComps(rest, isAbs, acc)
                 ELSE ResolveComps(rest, isAbs, Append(acc, c))
            ELSE ResolveComps(rest, isAbs, Append(acc, c))

Resolve(path) ==
    LET isAbs == path # <<>> /\ Head(path) = "/"
    IN [isAbs |-> isAbs, comps |-> ResolveComps(Split(path, "/"), isAbs, <<>>)]

\* path resolves to a strict descendant of root
StrictlyInside(root, path) ==
    LET r == Resolve(root)
        p == Resolve(path)
    IN /\ p.isAbs = r.isAbs
       /\ Len(p.comps) > Len(r.comps)
       /\ SubSeq(p.comps, 1, Len(r.comps)) = r.comps

\* One component of a member name as _safe_join_path keeps it
SafePart(part, isLast) ==
    IF isLast
    THEN FilterChars(part,
            {c \in CharsOf(part) : IsAlnum(c) \/ c \in {"_", "-", "."}})
    ELSE SafeName(part)

RECURSIVE SafeParts(_, _)
SafeParts(comps, i) ==
    IF i > Len(comps) THEN <<>>
    ELSE IF comps[i] \in {<<>>, <<".">>, <<".", ".">>}
    THEN SafeParts(comps, i + 1)
    ELSE <<SafePart(comps[i], i = Len(comps))>> \o SafeParts(comps, i + 1)

\* A looser unpacker that joins the raw member name to the root
UnsafeJoinPath(root, name) == JoinPath(root, name)

\* _safe_join_path(root, arcname)
SafeJoinPath(root, name) ==
    LET rel == LStrip(ReplaceChar(name, "\\", "/"), "/")
        parts == SafeParts(Split(rel, "/"), 1)
    IN IF parts # <<>> THEN JoinAll(root, parts) ELSE root

\* The archive loop's tests on a member name before it is extracted:
\* directory entries and extensions off the allow-list are skipped
IsDirEntry(name) == EndsWith(name, <<"/">>)

MemberExt(name) == Lower(SplitExt(name)[2])

IsExtractable(name) ==
    ~IsDirEntry(name) /\ MemberExt(name) \in ARCHIVE_ALLOWED_EXTS

----------------------------------------------------------------------------
(* Unique naming service *)

DigitChars == <<"0", "1", "2", "3", "4", "5", "6", "7", "8", "9">>

\* the decimal digits of a natural number
RECURSIVE ToDigits(_)
ToDigits(n) ==
    IF n < 10 THEN <<DigitChars[n + 1]>>
    ELSE Append(ToDigits(n \div 10), DigitChars[(n % 10) + 1])

\* zero padding to a minimum width, as the format specs 0<w>d do
RECURSIVE ZeroPad(_, _)
ZeroPad(s, width) ==
    IF Len(s) >= width THEN s ELSE ZeroPad(<<"0">> \o s, width)

\* str.rstrip(): trailing whitespace removed
RECURSIVE RStrip(_)
RStrip(s) ==
    IF s # <<>> /\ s[Len(s)] = " " THEN RStrip(SubSeq(s, 1, Len(s) - 1))
    ELSE s

\* datetime.now().strftime("%Y%m%d_%H%M%S") at second `now` of one minute
Timestamp(now) ==
    <<"2", "0", "2", "6", "0", "1", "0", "1", "_", "0", "0", "0", "0">>
    \o ZeroPad(ToDigits(now), 2)

\* A counter that is read but never advanced
StuckCounter(c) == c

\* counter = getattr(_generate_unique_image_name, 'counter', 0) + 1
NextCounter(c) == c + 1

\* f"{source_type}_{timestamp}_{counter:03d}_{clean_name}.{extension}"
FormatImageName(sourceType, timestamp, n, cleanName, extension) ==
    sourceType \o <<"_">> \o timestamp \o <<"_">> \o ZeroPad(ToDigits(n), 3)
    \o <<"_">> \o cleanName \o <<".">> \o extension

\* _generate_unique_image_name called at second `now` with counter value c:
\* the name returned and the counter stored
GenerateUniqueImageName(c, now, sourceType, originalName, extension) ==
    LET n == NextCounter(c)
    IN [name |-> FormatImageName(sourceType, Timestamp(now), n,
                                 RStrip(SafeName(originalName)), extension),
        counter |-> n]

----------------------------------------------------------------------------
(* Page/sheet limit resolution *)

MAX_PAGES_DEFAULT == 10

\* os.getenv(name, default)
Getenv(var, default) == IF var.set THEN var.value ELSE default

\* str.strip(): surrounding whitespace removed
Strip(s) == LStrip(RStrip(s), " ")

DigitValue(c) == CHOOSE d \in 0..9 : DigitChars[d + 1] = c

\* the value of a string of digits in which single underscores may group
RECURSIVE DigitsValue(_, _)
DigitsValue(s, acc) ==
    IF s = <<>> THEN acc
    ELSE IF Head(s) = "_" THEN DigitsValue(Tail(s), acc)
    ELSE DigitsValue(Tail(s), 10 * acc + DigitValue(Head(s)))

IsIntBody(s) ==
    /\ s # <<>>
    /\ \A i \in 1..Len(s) : s[i] \in Digits \cup {"_"}
    /\ s[1] \in Digits
    /\ s[Len(s)] \in Digits
    /\ \A i \in 1..(Len(s) - 1) : ~(s[i] = "_" /\ s[i + 1] = "_")

\* int(s): [ok |-> FALSE] stands for ValueError
ParseInt(s) ==
    LET t == Strip(s)
        signed == t # <<>> /\ Head(t) \in {"+", "-"}
        body == IF signed THEN Tail(t) ELSE t
    IN IF IsIntBody(body)
       THEN [ok |-> TRUE,
             v |-> IF signed /\ Head(t) = "-"
                   THEN 0 - DigitsValue(body, 0)
                   ELSE DigitsValue(body, 0)]
       ELSE [ok |-> FALSE, v |-> 0]

\* Optional[int]: None, or a number of pages
None == [limited |-> FALSE, pages |-> 0]
Pages(n) == [limited |-> TRUE, pages |-> n]

\* the truth value of an Optional[int]
Truthy(limit) == limit.limited /\ limit.pages # 0

DisableWords ==
    {<<"t", "r", "u", "e">>, <<"1">>, <<"y", "e", "s">>, <<"o", "n">>}

\* A resolution that lets the numeric limit win over the disable flag
ResolveCustomFirst(env) ==
    LET custom == Getenv(env.maxPages, <<>>)
        parsed == ParseInt(custom)
    IN IF custom # <<>> /\ parsed.ok /\ parsed.v > 0 THEN Pages(parsed.v)
       ELSE IF Lower(Getenv(env.disable, <<>>)) \in DisableWords THEN None
       ELSE Pages(MAX_PAGES_DEFAULT)

\* the body of _get_page_limit
ResolvePageLimit(env) ==
    LET disableLimit == Lower(Getenv(env.disable, <<>>))
        custom == Getenv(env.maxPages, <<>>)
        parsed == ParseInt(custom)
    IN IF disableLimit \in DisableWords THEN None
       ELSE IF custom # <<>> /\ parsed.ok /\ parsed.v > 0 THEN Pages(parsed.v)
       ELSE Pages(MAX_PAGES_DEFAULT)

\* _get_page_limit under lru_cache(maxsize=1): the limit and the cache after
GetPageLimit(cache, env) ==
    IF cache # <<>> THEN [limit |-> cache[1], cache |-> cache]
    ELSE [limit |-> ResolvePageLimit(env),
          cache |-> <<ResolvePageLimit(env)>>]

Min(a, b) == IF a < b THEN a ELSE b

\* range(n) as page numbers 1..n, and sheets[:n] as sheet numbers
FirstN(n) == [i \in 1..n |-> i]

\* A page count that ignores the limit
AllPages(total, limit) == total

\* pages_to_process = min(total_pages, page_limit) if page_limit else total
PagesToProcess(total, limit) ==
    IF Truthy(limit) THEN Min(total, limit.pages) ELSE total

\* if page_limit and total > page_limit: metadata['page_limit_reached'] = True
LimitReached(total, limit) == Truthy(limit) /\ total > limit.pages

\* _process_pdf on a document of `total` pages
ProcessPdfDoc(kind, total, limit) ==
    [kind |-> kind, total |-> total,
     processed |-> FirstN(PagesToProcess(total, limit)),
     limitFlag |-> LimitReached(total, limit), error |-> "none"]

\* _process_spreadsheet on a workbook of `total` readable sheets
ProcessSpreadsheetDoc(total, limit) ==
    IF total = 0
    THEN [kind |-> "spreadsheet", total |-> 0, processed |-> <<>>,
          limitFlag |-> FALSE, error |-> "no_sheets"]
    ELSE [kind |-> "spreadsheet", total |-> total,
          processed |-> FirstN(PagesToProcess(total, limit)),
          limitFlag |-> LimitReached(total, limit), error |-> "none"]

\* _process_numbers with numbers-parser on a document of `total` sheets
ProcessNumbersDoc(total, limit) ==
    [kind |-> "numbers", total |-> total,
     processed |-> FirstN(PagesToProcess(total, limit)),
     limitFlag |-> LimitReached(total, limit), error |-> "none"]

\* _process_epub: pages = [p.get_text("text") for p in doc]
ProcessEpubDoc(total) ==
    [kind |-> "epub", total |-> total, processed |-> FirstN(total),
     limitFlag |-> FALSE, error |-> "none"]

----------------------------------------------------------------------------
(* ZIP/RAR archive handlers *)

MAX_ZIP_SIZE == 100 * 1024 * 1024
MAX_ZIP_FILES == 50
MAX_RAR_SIZE == 100 * 1024 * 1024
MAX_RAR_FILES == 50
MAX_ARCHIVE_MEMBER_SIZE == 100 * 1024 * 1024

MediaDir == <<"m", "e", "d", "i", "a">>

ZipExt == <<".", "z", "i", "p">>
RarExt == <<".", "r", "a", "r">>

\* os.path.basename
Basename(path) == SubSeq(path, RFind(path, "/") + 1, Len(path))

\* Document.__init__, lines 395-402: the lower-cased extension with its
\* trailing non-alphanumeric characters removed
RECURSIVE StripTrailingNonAlnum(_)
StripTrailingNonAlnum(ext) ==
    IF ext # <<>> /\ ~IsAlnum(ext[Len(ext)])
    THEN StripTrailingNonAlnum(SubSeq(ext, 1, Len(ext) - 1))
    ELSE ext

FileExt(fileName) == StripTrailingNonAlnum(Lower(SplitExt(fileName)[2]))

\* extracted_root = os.path.join(media_dir, "unzipped" | "unrarred", base)
ExtractedRoot(subdir, fileName) ==
    JoinAll(MediaDir, <<subdir, SplitExt(fileName)[1]>>)

\* _ensure_unique_path: the first of base_1.ext, base_2.ext, ... not on disk
EnsureUniquePath(path, files) ==
    IF path \notin files THEN path
    ELSE LET parts == SplitExt(path)
             candidate(i) == parts[1] \o <<"_">> \o ToDigits(i) \o parts[2]
             i0 == CHOOSE i \in 1..(Cardinality(files) + 1) :
                      /\ candidate(i) \notin files
                      /\ \A j \in 1..(i - 1) : candidate(j) \in files
         IN candidate(i0)

\* A piece of text content: a diagnostic, an annotation or a member's block
Piece(t, name, n, body) == [t |-> t, name |-> name, n |-> n, body |-> body]

ArchiveSkippedMsg(size) == Piece("archive skipped: size > limit", <<>>, size, <<>>)
\* An annotation that does not name the member
AnonymousSkippedMsg(name, size) ==
    Piece("member skipped due to size limit", <<>>, size, <<>>)

\* f"(member skipped due to size limit: {name} size {size} B > ... B)"
MemberSkippedMsg(name, size) ==
    Piece("member skipped due to size limit", name, size, <<>>)
\* A delimiter that does not name the member
UnnamedBlock(name, childText) == Piece("Extracted", <<>>, 0, childText)

\* f"\n===== [Extracted: {name}] =====\n{child_doc.text_content}\n"
ExtractedBlock(name, childText) == Piece("Extracted", name, 0, childText)
ZipCorruptMsg == Piece("zip archive corrupted or unreadable", <<>>, 0, <<>>)
ZipEmptyMsg ==
    Piece("zip contains no supported documents or images", <<>>, 0, <<>>)
RarMissingMsg == Piece("rarfile module not installed; .rar skipped", <<>>, 0, <<>>)
RarPasswordMsg == Piece("rar is password-protected; skipped", <<>>, 0, <<>>)
RarCorruptMsg == Piece("rar archive corrupted or unreadable", <<>>, 0, <<>>)
\* f"(rar open failed: {e})"
RarOpenFailedMsg == Piece("rar open failed", <<>>, 0, <<>>)
RarEmptyMsg ==
    Piece("rar contains no supported documents or images", <<>>, 0, <<>>)

BasicMetadata == {"modified_time", "created_time", "size_bytes"}

ImagesDir == <<"i", "m", "a", "g", "e", "s">>
TablesDir == <<"t", "a", "b", "l", "e", "s">>

CsvExt == <<".", "c", "s", "v">>

\* _process_image, lines 553-557: the artifact path of an image file (of
\* format PNG), named by the naming service at counter value c and second
\* `now`
ImageArtifact(filePath, c, now) ==
    JoinPath(ImagesDir,
             GenerateUniqueImageName(c, now, <<"d", "i", "r", "e", "c", "t">>,
                                     SplitExt(Basename(filePath))[1],
                                     <<"p", "n", "g">>).name)

\* _process_csv, line 602: csv_copy
TableArtifact(filePath) == JoinPath(TablesDir, Basename(filePath))

\* The nested unit of one extracted member: Document(dest_path).process().
\* The member's handler either returns with the text of the file or raises
\* before it has written anything.  The handler of an image file saves one
\* image artifact and the handler of a CSV file one table artifact.
NestedUnit(member, destPath, c, now) ==
    LET u == NewUnit(Basename(destPath), member.size)
        ext == FileExt(u.fileName)
    IN IF member.child # "ok" THEN [u EXCEPT !.raised = "Exception"]
       ELSE IF ext \in SUPPORTED_IMAGE_FORMATS
       THEN [u EXCEPT
               !.text = <<Piece("image description", destPath, 0, <<>>)>>,
               !.images = <<ImageArtifact(destPath, c, now)>>,
               !.writes = <<ImageArtifact(destPath, c, now)>>]
       ELSE IF ext = CsvExt
       THEN [u EXCEPT
               !.text = <<Piece("CSV", destPath, 0, <<>>)>>,
               !.tables = <<TableArtifact(destPath)>>,
               !.writes = <<TableArtifact(destPath)>>]
       ELSE [u EXCEPT !.text = <<Piece("content", destPath, 0, <<>>)>>,
                      !.meta = BasicMetadata]

\* the counter of the naming service after a nested unit has run from
\* counter value c: one call for each image it saved
CounterAfter(u, c) == c + Len(u.images)

\* A handler without the inner try: a nested failure ends the archive pass
NestedFailureEscapes(acc) == [acc EXCEPT !.failed = "BadFile"]

\* except Exception as e: logger.error(...) -- the loop goes on
OnNestedFailure(acc) == acc

\* One member of the listing, lines 995-1028 (ZIP) and 1065-1099 (RAR).
\* acc holds the unit's text, images and tables, the count of useful files,
\* the files on disk, the nested units created, the members read, the paths
\* written, the counter of the naming service, the time, and the exception
\* that ended the pass ("none" while it goes on).
ProcessMember(acc, member, root) ==
    IF IsDirEntry(member.name) THEN acc
    ELSE IF MemberExt(member.name) \notin ARCHIVE_ALLOWED_EXTS THEN acc
    ELSE IF member.size > MAX_ARCHIVE_MEMBER_SIZE
    THEN [acc EXCEPT
            !.text = Append(@, MemberSkippedMsg(member.name, member.size))]
    ELSE LET joined == SafeJoinPath(root, member.name)
             destPath == IF joined \in acc.fs
                         THEN EnsureUniquePath(joined, acc.fs) ELSE joined
         IN IF member.read = "open fails"
            THEN [acc EXCEPT !.reads = Append(@, member.name),
                             !.failed = "BadFile"]
            ELSE IF member.read = "read fails"
            THEN [acc EXCEPT !.reads = Append(@, member.name),
                             !.fs = @ \cup {destPath},
                             !.writes = Append(@, destPath),
                             !.failed = "BadFile"]
            ELSE LET child == NestedUnit(member, destPath, acc.counter,
                                         acc.now)
                     extracted ==
                        [acc EXCEPT !.reads = Append(@, member.name),
                                    !.fs = @ \cup {destPath}
                                           \cup {child.writes[k] :
                                                   k \in 1..Len(child.writes)},
                                    !.writes = Append(@, destPath)
                                               \o child.writes,
                                    !.counter = CounterAfter(child, @),
                                    !.nested = Append(@, child)]
                 IN IF child.raised # "none" THEN OnNestedFailure(extracted)
                    ELSE [extracted EXCEPT
                            !.useful = @ + 1,
                            !.text = Append(@, ExtractedBlock(member.name,
                                                              child.text)),
                            !.images = @ \o child.images,
                            !.tables = @ \o child.tables]

\* for idx, name in enumerate(names): if idx >= maxFiles: break
\* (the state after each member is bound as a value before the next one)
RECURSIVE ProcessMembers(_, _, _, _, _)
ProcessMembers(acc, listing, i, maxFiles, root) ==
    IF i > Len(listing) \/ (i - 1) >= maxFiles \/ acc.failed # "none" THEN acc
    ELSE CHOOSE last \in
            {ProcessMembers(next, listing, i + 1, maxFiles, root) :
                next \in {ProcessMember(acc, listing[i], root)}} : TRUE

\* what a handler finds when it starts: the files on disk, the counter of
\* the naming service and the time
Disk(files, c, now) == [fs |-> files, counter |-> c, now |-> now]

\* the pass over an opened container, from the unit's state before it
ArchivePass(u, disk, container, listing, maxFiles, root) ==
    LET start == [text |-> u.text, images |-> u.images, tables |-> u.tables,
                  useful |-> 0, fs |-> disk.fs, nested |-> <<>>,
                  reads |-> <<>>, writes |-> <<>>,
                  counter |-> disk.counter, now |-> disk.now,
                  root |-> root,
                  failed |-> CASE container = "corrupt" -> "BadFile"
                               [] container = "password" -> "PasswordRequired"
                               [] container = "unreadable" -> "Exception"
                               [] OTHER -> "none"]
    IN ProcessMembers(start, listing, 1, maxFiles, root)

\* An archive handler that tests the size with >= instead of >
SizeOverLimitInclusive(size, limit) == size >= limit

\* if self.file_size > MAX_ZIP_SIZE (MAX_RAR_SIZE)
SizeOverLimit(size, limit) == size > limit

\* the unit after a pass r over its container: the extraction root made
\* before the pass, the members read, the nested units created and the
\* images and tables merged
AfterPass(u, r) ==
    [u EXCEPT !.opened = TRUE, !.reads = r.reads, !.nested = r.nested,
              !.images = r.images, !.tables = r.tables, !.writes = r.writes,
              !.dirs = <<r.root>>]

\* An end of the handler that appends the placeholder to the text
PlaceholderAppended(u, r) ==
    IF r.failed # "none"
    THEN [unit |-> [AfterPass(u, r) EXCEPT !.text = <<ZipCorruptMsg>>],
          fs |-> r.fs, counter |-> r.counter]
    ELSE [unit |-> [AfterPass(u, r) EXCEPT
                      !.text = IF r.useful = 0
                               THEN Append(r.text, ZipEmptyMsg)
                               ELSE r.text,
                      !.meta = @ \cup BasicMetadata],
          fs |-> r.fs, counter |-> r.counter]

\* lines 1029-1035: the end of _process_generic_zip after the pass r
ZipOutcome(u, r) ==
    IF r.failed # "none"
    THEN [unit |-> [AfterPass(u, r) EXCEPT !.text = <<ZipCorruptMsg>>],
          fs |-> r.fs, counter |-> r.counter]
    ELSE [unit |-> [AfterPass(u, r) EXCEPT
                      !.text = IF r.useful = 0 THEN <<ZipEmptyMsg>>
                               ELSE r.text,
                      !.meta = @ \cup BasicMetadata],
          fs |-> r.fs, counter |-> r.counter]

\* Document._process_generic_zip: the unit and the files on disk after it
ProcessGenericZipUnit(u, disk, a) ==
    IF SizeOverLimit(u.size, MAX_ZIP_SIZE)
    THEN [unit |-> [u EXCEPT !.text = <<ArchiveSkippedMsg(u.size)>>],
          fs |-> disk.fs, counter |-> disk.counter]
    ELSE CHOOSE out \in
            {ZipOutcome(u, r) :
                r \in {ArchivePass(u, disk, a.container, a.listing,
                                   MAX_ZIP_FILES,
                                   ExtractedRoot(<<"u", "n", "z", "i", "p",
                                                   "p", "e", "d">>,
                                                 u.fileName))}} : TRUE

\* An end of the handler that reports every failure as corruption
RarOutcomeUnclassified(u, r) ==
    IF r.failed # "none"
    THEN [unit |-> [AfterPass(u, r) EXCEPT !.text = <<RarCorruptMsg>>],
          fs |-> r.fs, counter |-> r.counter]
    ELSE [unit |-> [AfterPass(u, r) EXCEPT
                      !.text = IF r.useful = 0 THEN <<RarEmptyMsg>>
                               ELSE r.text,
                      !.meta = @ \cup BasicMetadata],
          fs |-> r.fs, counter |-> r.counter]

\* lines 1100-1119: the end of _process_generic_rar after the pass r
RarOutcome(u, r) ==
    IF r.failed = "PasswordRequired"
    THEN [unit |-> [AfterPass(u, r) EXCEPT !.text = <<RarPasswordMsg>>],
          fs |-> r.fs, counter |-> r.counter]
    ELSE IF r.failed = "BadFile"
    THEN [unit |-> [AfterPass(u, r) EXCEPT !.text = <<RarCorruptMsg>>],
          fs |-> r.fs, counter |-> r.counter]
    ELSE IF r.failed # "none"
    THEN [unit |-> [AfterPass(u, r) EXCEPT !.text = <<RarOpenFailedMsg>>],
          fs |-> r.fs, counter |-> r.counter]
    ELSE [unit |-> [AfterPass(u, r) EXCEPT
                      !.text = IF r.useful = 0 THEN <<RarEmptyMsg>>
                               ELSE r.text,
                      !.meta = @ \cup BasicMetadata],
          fs |-> r.fs, counter |-> r.counter]

\* Document._process_generic_rar
ProcessGenericRarUnit(u, disk, a, installed) ==
    IF ~installed
    THEN [unit |-> [u EXCEPT !.text = <<RarMissingMsg>>], fs |-> disk.fs,
          counter |-> disk.counter]
    ELSE IF SizeOverLimit(u.size, MAX_RAR_SIZE)
    THEN [unit |-> [u EXCEPT !.text = <<ArchiveSkippedMsg(u.size)>>],
          fs |-> disk.fs, counter |-> disk.counter]
    ELSE CHOOSE out \in
            {RarOutcome(u, r) :
                r \in {ArchivePass(u, disk, a.container, a.listing,
                                   MAX_RAR_FILES,
                                   ExtractedRoot(<<"u", "n", "r", "a", "r",
                                                   "r", "e", "d">>,
                                                 u.fileName))}} : TRUE

----------------------------------------------------------------------------
(* Specification SpecPath: the archive loop's path handling of one member *)

\* Bound: the longest stem of a member name
MaxStemLen == 5

NameAlphabet == {"p", "y", ".", "/", "\\", "!"}

RECURSIVE StringsUpTo(_, _)
StringsUpTo(alphabet, n) ==
    IF n = 0 THEN {<<>>}
    ELSE LET shorter == StringsUpTo(alphabet, n - 1)
         IN shorter \cup {Append(s, c) : s \in shorter, c \in alphabet}

NameSuffixes ==
    {<<>>, <<"/">>, <<".", "p", "y">>, <<".", "P", "Y">>, <<".", "p">>,
     <<".", "p", "y", "\\">>}

\* the member names of the model: a stem followed by a suffix
MemberNames ==
    {stem \o suffix : stem \in StringsUpTo(NameAlphabet, MaxStemLen),
                      suffix \in NameSuffixes}

\* the extraction root media_dir/unzipped/<archive base name>
ExtractionRoot == <<"m", "/", "u", "/", "a">>

InitPath ==
    /\ IdleStore
    /\ IdleName
    /\ IdlePage
    /\ IdleArch
    /\ IdleBatch
    /\ arcname \in MemberNames
    /\ pathPc = "start"
    /\ dest = NoPath

\* lines 995-1011: the member is extractable and its destination computed
ExtractMember ==
    /\ pathPc = "start"
    /\ IsExtractable(arcname)
    /\ dest' = SafeJoinPath(ExtractionRoot, arcname)
    /\ pathPc' = "extracted"
    /\ UNCHANGED <<arcname, notPathVars>>

\* lines 995-996, 1027-1028: a directory entry or unsupported extension
SkipMember ==
    /\ pathPc = "start"
    /\ ~IsExtractable(arcname)
    /\ pathPc' = "skipped"
    /\ UNCHANGED <<arcname, dest, notPathVars>>

NextPath == ExtractMember \/ SkipMember

SpecPath == InitPath /\ [][NextPath]_vars

\* C1: every member name the unpacker extracts gets a destination that is a
\* strict descendant of the archive's extraction root.
C1_DestinationInsideRoot ==
    pathPc = "extracted" => StrictlyInside(ExtractionRoot, dest)

HasSegment(name, seg) ==
    \E i \in 1..Len(Split(ReplaceChar(name, "\\", "/"), "/")) :
        Split(ReplaceChar(name, "\\", "/"), "/")[i] = seg

\* a member whose name has a ".." segment and a leading separator was
\* extracted
C1_Witness ==
    /\ pathPc = "extracted"
    /\ HasSegment(arcname, <<".", ".">>)
    /\ arcname[1] \in {"/", "\\"}

\* the segments of the destination below the extraction root
DestSegments ==
    Split(SubSeq(dest, Len(ExtractionRoot) + 2, Len(dest)), "/")

OnlySafeChars(seg, extra) ==
    \A k \in 1..Len(seg) : IsAlnum(seg[k]) \/ seg[k] \in {"_", "-"} \cup extra

DotCount(seg) == Cardinality({k \in 1..Len(seg) : seg[k] = "."})

\* the destination has no empty, "." or ".." segment, and its segments
\* before the last hold only alphanumerics, "_" and "-"
C25_SegmentsClean ==
    \A i \in 1..Len(DestSegments) :
        /\ DestSegments[i] \notin {<<>>, <<".">>, <<".", ".">>}
        /\ i < Len(DestSegments) => OnlySafeChars(DestSegments[i], {})

\* C25 as stated: in the output of _safe_join_path the empty, "." and ".."
\* segments of the member name are dropped, every segment but the last
\* holds only alphanumerics, underscore and hyphen, and the last segment
\* holds only those characters and exactly one dot, the extension dot.
C25_SanitizedSegments ==
    pathPc = "extracted" =>
        /\ C25_SegmentsClean
        /\ OnlySafeChars(DestSegments[Len(DestSegments)], {"."})
        /\ DotCount(DestSegments[Len(DestSegments)]) = 1

----------------------------------------------------------------------------
(* Specification SpecNaming: a sequence of naming-service calls *)

\* Bounds: the number of calls and the last second of the clock
MaxCalls == 3
MaxClock == 1

\* the tags the program passes, and a tag that embeds a timestamp and counter
ProgramTags ==
    {<<"p", "d", "f">>, <<"d", "i", "r", "e", "c", "t">>,
     <<"a", "r", "c", "h", "i", "v", "e">>}

SourceTags ==
    ProgramTags \cup
    {<<"p", "d", "f", "_">> \o Timestamp(0) \o <<"_", "0", "0", "1">>}

BaseNames ==
    {<<"x">>, <<"x", "!", " ">>,
     Timestamp(0) \o <<"_", "0", "0", "2", "_", "x">>}

Extensions == {<<"p", "n", "g">>}

InitName ==
    /\ IdleStore
    /\ IdlePath
    /\ IdlePage
    /\ IdleArch
    /\ IdleBatch
    /\ counter = 0
    /\ clock = 0
    /\ issued = <<>>

\* lines 199-208: one call of _generate_unique_image_name
GenerateName ==
    /\ Len(issued) < MaxCalls
    /\ \E tag \in SourceTags, base \in BaseNames, ext \in Extensions :
          LET r == GenerateUniqueImageName(counter, clock, tag, base, ext)
          IN /\ counter' = r.counter
             /\ issued' = Append(issued, [tag |-> tag, base |-> base,
                                          ext |-> ext, at |-> clock,
                                          name |-> r.name])
    /\ UNCHANGED <<clock, notNameVars>>

\* time passes between calls
Tick ==
    /\ clock < MaxClock
    /\ clock' = clock + 1
    /\ UNCHANGED <<counter, issued, notNameVars>>

NextName == GenerateName \/ Tick

SpecNaming == InitName /\ [][NextName]_vars

\* C3 as stated: for any sequence of calls, with any source tags, base names
\* and extensions, the returned filenames are pairwise distinct.
C3_AllNamesDistinct ==
    \A i, j \in 1..Len(issued) : i # j => issued[i].name # issued[j].name

\* C3 amended: the returned filenames are pairwise distinct for the calls
\* whose source tag contains no underscore, as the tags the program passes.
C3_NamesDistinctForPlainTags ==
    \A i, j \in 1..Len(issued) :
        /\ i # j
        /\ "_" \notin CharsOf(issued[i].tag)
        /\ "_" \notin CharsOf(issued[j].tag)
        => issued[i].name # issued[j].name

\* three calls with the same tag, base name and extension in the same second
C3_Witness ==
    /\ Len(issued) = 3
    /\ \A i \in 1..3 :
          /\ issued[i].tag = <<"p", "d", "f">>
          /\ issued[i].base = issued[1].base
          /\ issued[i].at = issued[1].at

----------------------------------------------------------------------------
(* Specification SpecLongRun: a process that names many images *)

\* Bound: the number of calls of a long-running process
MaxLongRun == 1000

InitLongRun ==
    /\ IdleStore
    /\ IdlePath
    /\ IdlePage
    /\ IdleArch
    /\ IdleBatch
    /\ counter = 0
    /\ clock = 0
    /\ issued = <<>>

\* the number of calls made so far; only the last call is kept in `issued`
CallsMade == IF issued = <<>> THEN 0 ELSE issued[1].call

\* lines 199-208: one more call of _generate_unique_image_name, made by
\* _process_image for a file x
NameDirectImage ==
    /\ CallsMade < MaxLongRun
    /\ \E tag \in {<<"d", "i", "r", "e", "c", "t">>}, base \in {<<"x">>},
          ext \in Extensions :
          LET r == GenerateUniqueImageName(counter, clock, tag, base, ext)
          IN /\ counter' = r.counter
             /\ issued' = <<[tag |-> tag, base |-> base, ext |-> ext,
                             at |-> clock, name |-> r.name,
                             call |-> CallsMade + 1]>>
    /\ UNCHANGED <<clock, notNameVars>>

NextLongRun == NameDirectImage

SpecLongRun == InitLongRun /\ [][NextLongRun]_vars

\* the counter field of a name whose tag has no underscore: the field after
\* the tag, the date and the time
CounterField(name) == Split(name, "_")[4]

\* C26 as stated: the k-th call of the process embeds counter value k,
\* whatever the tag, so that the value grows by one with every call and is
\* never reset, and the counter field of the name is exactly 3 digits.
C26_CounterIsCallNumberInThreeDigits ==
    issued # <<>> =>
        LET k == CallsMade
            field == CounterField(issued[1].name)
        IN /\ counter = k
           /\ DigitsValue(field, 0) = k
           /\ Len(field) = 3

----------------------------------------------------------------------------
(* Specification SpecPages: documents handled under a page limit *)

\* Bound: the most pages or sheets of a document
MaxPages == 11

DisableValues ==
    {Unset} \cup
    {[set |-> TRUE, value |-> v] :
        v \in {<<>>, <<"t", "r", "u", "e">>, <<"T", "r", "u", "e">>, <<"1">>,
               <<"y", "e", "s">>, <<"O", "N">>, <<"0">>,
               <<"f", "a", "l", "s", "e">>, <<"y">>}}

MaxPagesValues ==
    {Unset} \cup
    {[set |-> TRUE, value |-> v] :
        v \in {<<>>, <<"1">>, <<"3">>, <<" ", "2", " ">>, <<"+", "2">>,
               <<"1", "_", "1">>, <<"0">>, <<"-", "3">>, <<"2", ".", "5">>,
               <<"a", "b", "c">>, <<"1", "2">>}}

InitPages ==
    /\ IdleStore
    /\ IdlePath
    /\ IdleName
    /\ IdleArch
    /\ IdleBatch
    /\ environ \in [disable : DisableValues, maxPages : MaxPagesValues]
    /\ limitCache = <<>>
    /\ doc = NoDoc

\* lines 456-467: Document._process_pdf
ProcessPdf ==
    /\ \E n \in 0..MaxPages :
          LET r == GetPageLimit(limitCache, environ)
          IN /\ limitCache' = r.cache
             /\ doc' = ProcessPdfDoc("pdf", n, r.limit)
    /\ UNCHANGED <<environ, notPageVars>>

\* lines 442-445: an office file converted to PDF, then _process_pdf
ProcessOffice ==
    /\ \E n \in 0..MaxPages :
          LET r == GetPageLimit(limitCache, environ)
          IN /\ limitCache' = r.cache
             /\ doc' = ProcessPdfDoc("office", n, r.limit)
    /\ UNCHANGED <<environ, notPageVars>>

\* lines 571-598: Document._process_spreadsheet; the limit is read only
\* when the workbook has sheets
ProcessSpreadsheet ==
    /\ \E n \in 0..MaxPages :
          LET r == GetPageLimit(limitCache, environ)
          IN /\ limitCache' = IF n = 0 THEN limitCache ELSE r.cache
             /\ doc' = ProcessSpreadsheetDoc(n, r.limit)
    /\ UNCHANGED <<environ, notPageVars>>

\* lines 664-676: Document._process_numbers with numbers-parser
ProcessNumbers ==
    /\ \E n \in 0..MaxPages :
          LET r == GetPageLimit(limitCache, environ)
          IN /\ limitCache' = r.cache
             /\ doc' = ProcessNumbersDoc(n, r.limit)
    /\ UNCHANGED <<environ, notPageVars>>

\* lines 636-641: Document._process_epub
ProcessEpub ==
    /\ \E n \in 0..MaxPages : doc' = ProcessEpubDoc(n)
    /\ UNCHANGED <<environ, limitCache, notPageVars>>

NextPages ==
    \/ ProcessPdf
    \/ ProcessOffice
    \/ ProcessSpreadsheet
    \/ ProcessNumbers
    \/ ProcessEpub

SpecPages == InitPages /\ [][NextPages]_vars

\* C7: a PDF of N pages under resolved limit L has exactly pages 1..min(N,L)
\* processed, in order, and the page_limit_reached flag set iff N > L; with
\* the limit disabled all N pages are processed and the flag is absent.
C7_PdfPagesAndFlag ==
    doc.kind = "pdf" =>
        LET L == limitCache[1]
            N == doc.total
            expected == IF L.limited THEN Min(N, L.pages) ELSE N
        IN /\ Len(doc.processed) = expected
           /\ \A i \in 1..Len(doc.processed) : doc.processed[i] = i
           /\ doc.limitFlag <=> (L.limited /\ N > L.pages)

\* a PDF longer than a custom limit of 3 pages was cut and flagged
C7_Witness ==
    /\ doc.kind = "pdf"
    /\ limitCache = <<Pages(3)>>
    /\ doc.total > 3
    /\ doc.limitFlag

\* C8: unless the page limit is disabled, no page- or sheet-bearing handler
\* (PDF, office converted to PDF, spreadsheet, Numbers, EPUB) processes more
\* pages or sheets of a document than the resolved limit.
C8_NoHandlerExceedsLimit ==
    LET L == ResolvePageLimit(environ)
    IN L.limited => Len(doc.processed) <= L.pages

C9_DisableFlagSet == Lower(Getenv(environ.disable, <<>>)) \in DisableWords

C9_CustomLimit == ParseInt(Getenv(environ.maxPages, <<>>))

\* C9: the disable flag wins over the numeric limit, which wins over the
\* default: a truthy DISABLE_PAGE_LIMIT disables the limit whatever
\* MAX_DOCUMENT_PAGES holds; otherwise a positive integer MAX_DOCUMENT_PAGES
\* is the limit; otherwise the limit is the default 10.
C9_LimitPrecedence ==
    limitCache # <<>> =>
        /\ C9_DisableFlagSet => limitCache[1] = None
        /\ (~C9_DisableFlagSet /\ C9_CustomLimit.ok /\ C9_CustomLimit.v > 0)
              => limitCache[1] = Pages(C9_CustomLimit.v)
        /\ (~C9_DisableFlagSet /\ ~(C9_CustomLimit.ok /\ C9_CustomLimit.v > 0))
              => limitCache[1] = Pages(10)

\* the limit was resolved to disabled although MAX_DOCUMENT_PAGES holds a
\* positive integer
C9_Witness ==
    /\ limitCache = <<None>>
    /\ C9_CustomLimit.ok
    /\ C9_CustomLimit.v > 0

----------------------------------------------------------------------------
(* Specification SpecArchive: one archive unit and its handler *)

\* Bound: the number of runs of like members in an archive listing
MaxRuns == 2

\* The kinds of member of the model: the name is prefix, number, suffix
MemberKinds ==
    {[prefix |-> <<"g">>, suffix |-> <<".", "t", "x", "t">>,
      size |-> 10, read |-> "ok", child |-> "ok"],
     [prefix |-> <<".", ".", "/", "g">>, suffix |-> <<".", "t", "x", "t">>,
      size |-> 10, read |-> "ok", child |-> "ok"],
     [prefix |-> <<"b">>, suffix |-> <<".", "p", "d", "f">>,
      size |-> 10, read |-> "ok", child |-> "raise"],
     [prefix |-> <<"h">>, suffix |-> <<".", "t", "x", "t">>,
      size |-> MAX_ARCHIVE_MEMBER_SIZE + 1, read |-> "ok", child |-> "ok"],
     [prefix |-> <<"u">>, suffix |-> <<".", "b", "i", "n">>,
      size |-> 10, read |-> "ok", child |-> "ok"],
     [prefix |-> <<"d">>, suffix |-> <<"/">>,
      size |-> 0, read |-> "ok", child |-> "ok"],
     [prefix |-> <<"k">>, suffix |-> <<".", "t", "x", "t">>,
      size |-> 10, read |-> "read fails", child |-> "ok"],
     [prefix |-> <<"o">>, suffix |-> <<".", "t", "x", "t">>,
      size |-> 10, read |-> "open fails", child |-> "ok"]}

RunLengths == {1, MAX_ZIP_FILES}

\* n members of one kind, numbered from 1
RunOf(kind, n) ==
    [i \in 1..n |->
        [name |-> kind.prefix \o ToDigits(i) \o kind.suffix,
         size |-> kind.size, read |-> kind.read, child |-> kind.child]]

RECURSIVE ListingsOf(_)
ListingsOf(runs) ==
    IF runs = 0 THEN {<<>>}
    ELSE LET shorter == ListingsOf(runs - 1)
         IN shorter \cup
            {l \o RunOf(k, n) : l \in shorter, k \in MemberKinds,
                                n \in RunLengths}

\* the size of the archive file: at the byte limit and one byte over it
ArchiveSizes == {MAX_ZIP_SIZE, MAX_ZIP_SIZE + 1}

\* a container that opens, with its listing, or one that does not open
ArchiveInputs ==
    [fileName : {<<"x">> \o ZipExt, <<"x">> \o RarExt},
     size : ArchiveSizes,
     container : {"ok"},
     listing : ListingsOf(MaxRuns)]
    \cup
    [fileName : {<<"x">> \o ZipExt, <<"x">> \o RarExt},
     size : ArchiveSizes,
     container : {"corrupt", "password", "unreadable"},
     listing : {<<>>}]

InitArchive ==
    /\ IdleStore
    /\ IdlePath
    /\ IdleName
    /\ IdlePage
    /\ IdleBatch
    /\ rarfileInstalled \in BOOLEAN
    /\ fs = {}
    /\ archive \in ArchiveInputs
    /\ unit = NewUnit(archive.fileName, archive.size)
    /\ archPc = "start"

\* lines 977-1035: Document._process_generic_zip
ProcessGenericZip ==
    /\ archPc = "start"
    /\ FileExt(unit.fileName) = ZipExt
    /\ \E r \in {ProcessGenericZipUnit(unit, Disk(fs, counter, clock),
                                        archive)} :
          /\ unit' = r.unit
          /\ fs' = r.fs
          /\ counter' = r.counter
    /\ archPc' = "handled"
    /\ UNCHANGED <<rarfileInstalled, archive, pathVars, clock, issued,
                   pageVars, batchVars, otherVars>>

\* lines 1037-1119: Document._process_generic_rar
ProcessGenericRar ==
    /\ archPc = "start"
    /\ FileExt(unit.fileName) = RarExt
    /\ \E r \in {ProcessGenericRarUnit(unit, Disk(fs, counter, clock),
                                        archive, rarfileInstalled)} :
          /\ unit' = r.unit
          /\ fs' = r.fs
          /\ counter' = r.counter
    /\ archPc' = "handled"
    /\ UNCHANGED <<rarfileInstalled, archive, pathVars, clock, issued,
                   pageVars, batchVars, otherVars>>

NextArchive == ProcessGenericZip \/ ProcessGenericRar

SpecArchive == InitArchive /\ [][NextArchive]_vars

IsRar == FileExt(archive.fileName) = RarExt

ArchiveByteLimit == IF IsRar THEN MAX_RAR_SIZE ELSE MAX_ZIP_SIZE

UnderExtractionRoot ==
    {f \in fs :
        \/ StrictlyInside(ExtractedRoot(<<"u", "n", "z", "i", "p", "p", "e", "d">>,
                                        archive.fileName), f)
        \/ StrictlyInside(ExtractedRoot(<<"u", "n", "r", "a", "r", "r", "e", "d">>,
                                        archive.fileName), f)}

C4_SkippedUnopened ==
    /\ unit.text = <<ArchiveSkippedMsg(archive.size)>>
    /\ ~unit.opened
    /\ unit.reads = <<>>
    /\ unit.nested = <<>>
    /\ UnderExtractionRoot = {}

\* C4 as stated: an archive larger than the archive byte limit gets the skip
\* diagnostic as its text and is not opened (no member read, no file
\* written under its extraction root, no nested unit); an archive of
\* exactly the limit is opened and processed.
C4_OversizeArchiveSkipped ==
    archPc = "handled" =>
        /\ archive.size > ArchiveByteLimit => C4_SkippedUnopened
        /\ archive.size = ArchiveByteLimit => unit.opened

\* C4 amended: the same for a ZIP, and for a RAR when the rarfile module is
\* installed.
C4_OversizeSkippedWhenDecoderPresent ==
    (archPc = "handled" /\ (IsRar => rarfileInstalled)) =>
        /\ archive.size > ArchiveByteLimit => C4_SkippedUnopened
        /\ archive.size = ArchiveByteLimit => unit.opened

\* an archive one byte over the limit that lists an extractable member was
\* handled
C4_Witness ==
    /\ archPc = "handled"
    /\ archive.size = ArchiveByteLimit + 1
    /\ archive.container = "ok"
    /\ \E i \in 1..Len(archive.listing) :
          IsExtractable(archive.listing[i].name)
    /\ unit.text = <<ArchiveSkippedMsg(archive.size)>>

\* the members of the listing a pass extracts when none fails to extract:
\* those among the first MAX_ZIP_FILES entries that are extractable and not
\* over the member size limit, in listing order
C10_ExpectedMembers ==
    LET first == SubSeq(archive.listing, 1,
                        Min(Len(archive.listing), MAX_ZIP_FILES))
        Extracted(m) ==
            IsExtractable(m.name) /\ m.size <= MAX_ARCHIVE_MEMBER_SIZE
        kept == SelectSeq(first, Extracted)
    IN [i \in 1..Len(kept) |-> kept[i].name]

C10_NoExtractionFailure ==
    /\ archive.container = "ok"
    /\ \A i \in 1..Min(Len(archive.listing), MAX_ZIP_FILES) :
          archive.listing[i].read = "ok"

\* C10: exceptions raised while nested units process extracted members do
\* not leave the parent unit, and every member of the pass is still
\* extracted and handed to a nested unit, in listing order.
C10_NestedFailureContained ==
    (archPc = "handled" /\ unit.opened /\ C10_NoExtractionFailure) =>
        /\ unit.raised = "none"
        /\ unit.reads = C10_ExpectedMembers
        /\ Len(unit.nested) = Len(C10_ExpectedMembers)

\* a nested unit raised and the member after it was processed
C10_Witness ==
    /\ archPc = "handled"
    /\ \E k \in 1..(Len(unit.nested) - 1) :
          /\ unit.nested[k].raised # "none"
          /\ unit.nested[k + 1].raised = "none"

\* the handler met a resource limit: the archive was over the byte limit,
\* or it was opened and listed more entries than the member-count limit or
\* an allow-listed entry over the member size limit among those it reached
ArchiveLimitReached ==
    /\ archPc = "handled"
    /\ IsRar => rarfileInstalled
    /\ \/ archive.size > ArchiveByteLimit
       \/ /\ unit.opened
          /\ archive.container = "ok"
          /\ \/ Len(archive.listing) > MAX_ZIP_FILES
             \/ \E k \in 1..Len(unit.text) :
                   unit.text[k].t = "member skipped due to size limit"

\* C15 as stated, for the archive limits: whenever the archive byte limit,
\* the member-count limit or the member size limit is reached, the unit's
\* metadata holds a flag recording it (a key besides the basic file times
\* and size).
C15_LimitRecordedInMetadata ==
    ArchiveLimitReached => unit.meta \ BasicMetadata # {}

\* the allow-listed file entries among the first n entries of the listing
SupportedAmong(n) ==
    {j \in 1..n : IsExtractable(archive.listing[j].name)}

\* C21 as stated: entries that are skipped for their extension, and
\* directory entries, take nothing of the member quota: in a container that
\* reads without failure, every allow-listed member within the member size
\* limit that has fewer than MAX_ZIP_FILES allow-listed members before it is
\* extracted.
C21_SkippedEntriesTakeNoQuota ==
    (/\ archPc = "handled"
     /\ unit.opened
     /\ archive.container = "ok"
     /\ \A i \in 1..Len(archive.listing) : archive.listing[i].read = "ok")
    => \A i \in 1..Len(archive.listing) :
          (/\ IsExtractable(archive.listing[i].name)
           /\ archive.listing[i].size <= MAX_ARCHIVE_MEMBER_SIZE
           /\ Cardinality(SupportedAmong(i - 1)) < MAX_ZIP_FILES)
          => \E k \in 1..Len(unit.reads) :
                unit.reads[k] = archive.listing[i].name

\* the text of the unit is one diagnostic, of the given wording
IsDiagnostic(wording) == Len(unit.text) = 1 /\ unit.text[1].t = wording

\* C24: a RAR unit fails softly, never with an exception, and by class:
\* without the rarfile module the text is the module-not-installed
\* diagnostic and nothing was done on the file system (no extraction root
\* made, container not opened, nothing written); a password-protected
\* container gives the password diagnostic and a corrupt one the corruption
\* diagnostic; the three wordings differ.
C24_RarFailureClasses ==
    (archPc = "handled" /\ IsRar) =>
        /\ unit.raised = "none"
        /\ ~rarfileInstalled =>
              /\ IsDiagnostic("rarfile module not installed; .rar skipped")
              /\ unit.dirs = <<>>
              /\ ~unit.opened
              /\ unit.reads = <<>>
              /\ fs = {}
        /\ (rarfileInstalled /\ archive.size <= MAX_RAR_SIZE) =>
              /\ archive.container = "password" =>
                    IsDiagnostic("rar is password-protected; skipped")
              /\ archive.container = "corrupt" =>
                    IsDiagnostic("rar archive corrupted or unreadable")
        /\ RarMissingMsg.t # RarPasswordMsg.t
        /\ RarMissingMsg.t # RarCorruptMsg.t
        /\ RarPasswordMsg.t # RarCorruptMsg.t

\* a password-protected RAR was handled with the rarfile module installed
C24_Witness ==
    /\ archPc = "handled"
    /\ IsRar
    /\ rarfileInstalled
    /\ archive.container = "password"
    /\ unit.opened
    /\ IsDiagnostic("rar is password-protected; skipped")

----------------------------------------------------------------------------
(* Specification SpecMembers: one archive of a few members of every sort *)

\* Bound: the most entries of a listing
MaxMembers == 3

\* the entries a listing is made of: a text file, an image, a CSV table, a
\* PDF whose handler raises, a text file over the member size limit, a file
\* of no supported type, a ZIP and a RAR archive, a text file whose bytes
\* cannot be read from the container, and a directory entry
SampleKinds ==
    {[prefix |-> <<"t">>, suffix |-> <<".", "t", "x", "t">>,
      size |-> 10, read |-> "ok", child |-> "ok"],
     [prefix |-> <<"p">>, suffix |-> <<".", "p", "n", "g">>,
      size |-> 10, read |-> "ok", child |-> "ok"],
     [prefix |-> <<"c">>, suffix |-> CsvExt,
      size |-> 10, read |-> "ok", child |-> "ok"],
     [prefix |-> <<"b">>, suffix |-> <<".", "p", "d", "f">>,
      size |-> 10, read |-> "ok", child |-> "raise"],
     [prefix |-> <<"h">>, suffix |-> <<".", "t", "x", "t">>,
      size |-> MAX_ARCHIVE_MEMBER_SIZE + 1, read |-> "ok", child |-> "ok"],
     [prefix |-> <<"u">>, suffix |-> <<".", "b", "i", "n">>,
      size |-> 10, read |-> "ok", child |-> "ok"],
     [prefix |-> <<"z">>, suffix |-> ZipExt,
      size |-> 10, read |-> "ok", child |-> "ok"],
     [prefix |-> <<"r">>, suffix |-> RarExt,
      size |-> 10, read |-> "ok", child |-> "ok"],
     [prefix |-> <<"k">>, suffix |-> <<".", "t", "x", "t">>,
      size |-> 10, read |-> "read fails", child |-> "ok"],
     [prefix |-> <<"d">>, suffix |-> <<"/">>,
      size |-> 0, read |-> "ok", child |-> "ok"]}

SampleMembers == {RunOf(kind, 1)[1] : kind \in SampleKinds}

\* the listings of at most n entries
RECURSIVE ListingsUpTo(_)
ListingsUpTo(n) ==
    IF n = 0 THEN {<<>>}
    ELSE LET shorter == ListingsUpTo(n - 1)
         IN shorter \cup
            {Append(l, m) : l \in shorter, m \in SampleMembers}

SampleArchives ==
    [fileName : {<<"x">> \o ZipExt, <<"x">> \o RarExt},
     size : {10},
     container : {"ok"},
     listing : ListingsUpTo(MaxMembers)]
    \cup
    [fileName : {<<"x">> \o ZipExt, <<"x">> \o RarExt},
     size : {10},
     container : {"corrupt", "password"},
     listing : {<<>>}]

InitMembers ==
    /\ IdleStore
    /\ IdlePath
    /\ IdleName
    /\ IdlePage
    /\ IdleBatch
    /\ rarfileInstalled \in BOOLEAN
    /\ fs = {}
    /\ archive \in SampleArchives
    /\ unit = NewUnit(archive.fileName, archive.size)
    /\ archPc = "start"

SpecMembers == InitMembers /\ [][NextArchive]_vars

\* the container was opened and read to the end of the pass
PassCompleted ==
    /\ archPc = "handled"
    /\ unit.opened
    /\ archive.container = "ok"
    /\ \A i \in 1..Len(archive.listing) : archive.listing[i].read = "ok"

\* C11 as stated: every nested member failure the archive handler catches is
\* recorded in the parent unit's text by an annotation naming the failed
\* member.
C11_NestedFailureAnnotated ==
    archPc = "handled" =>
        \A k \in 1..Len(unit.nested) :
            unit.nested[k].raised # "none" =>
                \E i \in 1..Len(unit.text) : unit.text[i].name = unit.reads[k]

\* the entries of the listing within the member-count limit
WithinCount == 1..Min(Len(archive.listing), MAX_ZIP_FILES)

\* C12 as stated (its first half): an archive that is a member of another
\* archive is extracted and handed to a nested unit, which unpacks it.
C12_NestedArchiveUnpacked ==
    PassCompleted =>
        \A i \in WithinCount :
            MemberExt(archive.listing[i].name) \in {ZipExt, RarExt} =>
                \E k \in 1..Len(unit.nested) :
                    /\ unit.reads[k] = archive.listing[i].name
                    /\ unit.nested[k].opened

\* the concatenation of the first n sequences of a sequence of sequences
RECURSIVE ConcatUpTo(_, _)
ConcatUpTo(seqs, n) ==
    IF n = 0 THEN <<>> ELSE ConcatUpTo(seqs, n - 1) \o seqs[n]

\* the entries within the count limit that the pass extracts, and those
\* among them whose nested unit returns
ExtractedEntries ==
    LET Taken(m) == IsExtractable(m.name) /\ m.size <= MAX_ARCHIVE_MEMBER_SIZE
    IN SelectSeq(SubSeq(archive.listing, 1,
                        Min(Len(archive.listing), MAX_ZIP_FILES)), Taken)

ProcessedEntries ==
    LET Returned(m) == m.child = "ok"
    IN SelectSeq(ExtractedEntries, Returned)

NamesOf(entries) == [i \in 1..Len(entries) |-> entries[i].name]

\* the delimited blocks of the unit's text
ExtractedBlocks ==
    LET IsBlock(piece) == piece.t = "Extracted"
    IN SelectSeq(unit.text, IsBlock)

\* the artifacts of the nested units that returned, in order
NestedArtifacts(Field(_)) ==
    ConcatUpTo([k \in 1..Len(unit.nested) |->
                   IF unit.nested[k].raised = "none"
                   THEN Field(unit.nested[k]) ELSE <<>>],
               Len(unit.nested))

ImagesOf(u) == u.images
TablesOf(u) == u.tables

\* an entry outside the allow list has left nothing: no nested unit, no file
\* under the extraction root, no piece of text naming it
LeftNothing(m) ==
    /\ \A k \in 1..Len(unit.reads) : unit.reads[k] # m.name
    /\ \A f \in UnderExtractionRoot : Basename(f) # Basename(m.name)
    /\ \A i \in 1..Len(unit.text) : unit.text[i].name # m.name

\* C13: after a pass over a readable archive, nested units exist only for
\* allow-listed members; the text holds one delimited block per member whose
\* nested unit returned, naming it, in listing order; the images and tables
\* are those of these nested units; and a member outside the allow list has
\* left no nested unit, no file, no artifact and no text.
C13_BlocksForAllowListedMembers ==
    PassCompleted =>
        /\ unit.reads = NamesOf(ExtractedEntries)
        /\ Len(unit.nested) = Len(unit.reads)
        /\ \A k \in 1..Len(unit.reads) :
              MemberExt(unit.reads[k]) \in ARCHIVE_ALLOWED_EXTS
        /\ NamesOf(ExtractedBlocks) = NamesOf(ProcessedEntries)
        /\ unit.images = NestedArtifacts(ImagesOf)
        /\ unit.tables = NestedArtifacts(TablesOf)
        /\ Cardinality(UnderExtractionRoot) = Len(unit.reads)
        /\ \A i \in WithinCount :
              (/\ ~IsDirEntry(archive.listing[i].name)
               /\ MemberExt(archive.listing[i].name) \notin ARCHIVE_ALLOWED_EXTS)
              => LeftNothing(archive.listing[i])

\* a ZIP of a .bin entry and a .txt entry was handled and has one nested unit
\* and one block, naming the .txt entry
C13_Witness ==
    /\ archPc = "handled"
    /\ Len(archive.listing) = 2
    /\ archive.listing[1].name = <<"u", "1", ".", "b", "i", "n">>
    /\ archive.listing[2].name = <<"t", "1", ".", "t", "x", "t">>
    /\ Len(unit.nested) = 1
    /\ NamesOf(ExtractedBlocks) = <<archive.listing[2].name>>

IsOversized(m) ==
    IsExtractable(m.name) /\ m.size > MAX_ARCHIVE_MEMBER_SIZE

IsSmallAndSound(m) ==
    IsExtractable(m.name) /\ m.size <= MAX_ARCHIVE_MEMBER_SIZE /\ m.child = "ok"

\* the oversized entry was not extracted and the text has an annotation
\* naming it
SkippedWithAnnotation(m) ==
    /\ \A k \in 1..Len(unit.reads) : unit.reads[k] # m.name
    /\ \A f \in fs : Basename(f) # Basename(m.name)
    /\ \E i \in 1..Len(unit.text) :
          /\ unit.text[i].t = "member skipped due to size limit"
          /\ unit.text[i].name = m.name

\* the small entry was extracted and processed, and its block, images and
\* tables are in the parent
ContributedNormally(m) ==
    \E k \in 1..Len(unit.nested) :
        /\ unit.reads[k] = m.name
        /\ unit.nested[k].raised = "none"
        /\ \E i \in 1..Len(unit.text) :
              /\ unit.text[i].t = "Extracted"
              /\ unit.text[i].name = m.name
              /\ unit.text[i].body = unit.nested[k].text
        /\ \A j \in 1..Len(unit.nested[k].images) :
              \E i \in 1..Len(unit.images) :
                  unit.images[i] = unit.nested[k].images[j]
        /\ \A j \in 1..Len(unit.nested[k].tables) :
              \E i \in 1..Len(unit.tables) :
                  unit.tables[i] = unit.nested[k].tables[j]

\* C14: in an archive with a supported member over the member size limit
\* and a small supported member, in either order, the oversized one is not
\* extracted and is named by an annotation in the parent's text, and the
\* small one is extracted and processed and its block, images and tables
\* are in the parent.
C14_OversizedSkippedSmallProcessed ==
    PassCompleted =>
        \A i, j \in WithinCount :
            (IsOversized(archive.listing[i])
             /\ IsSmallAndSound(archive.listing[j]))
            => /\ SkippedWithAnnotation(archive.listing[i])
               /\ ContributedNormally(archive.listing[j])

\* an archive listing an image after an oversized text file was handled, and
\* the image's artifact is in the parent
C14_Witness ==
    /\ archPc = "handled"
    /\ Len(archive.listing) = 2
    /\ IsOversized(archive.listing[1])
    /\ MemberExt(archive.listing[2].name) \in SUPPORTED_IMAGE_FORMATS
    /\ Len(unit.images) = 1
    /\ Len(unit.text) = 2

\* the container turned out unreadable: at open, or at an entry the pass
\* reached
ContainerFailed ==
    /\ archPc = "handled"
    /\ unit.opened
    /\ \/ archive.container = "corrupt"
       \/ /\ archive.container = "ok"
          /\ \E i \in WithinCount :
                /\ archive.listing[i].read # "ok"
                /\ \E k \in 1..Len(unit.reads) :
                      unit.reads[k] = archive.listing[i].name

\* C16 as stated: a container that is unreadable or corrupt, at open or while
\* its members are read, leaves the unit with the corruption diagnostic as
\* its text and no exception, and nothing of a partial extraction: no member
\* file on disk and no nested images or tables in the unit.
C16_CorruptContainerLeavesNothing ==
    ContainerFailed =>
        /\ unit.text = <<IF IsRar THEN RarCorruptMsg ELSE ZipCorruptMsg>>
        /\ unit.raised = "none"
        /\ UnderExtractionRoot = {}
        /\ unit.images = <<>>
        /\ unit.tables = <<>>

\* C22 as stated: whenever a member was skipped for its declared size, the
\* text of the parent unit after the handler returned holds the skip
\* annotation naming that member, whatever the other members of the archive
\* are.
C22_SkipAnnotationInFinalText ==
    PassCompleted =>
        \A i \in WithinCount :
            IsOversized(archive.listing[i]) =>
                \E k \in 1..Len(unit.text) :
                    /\ unit.text[k].t = "member skipped due to size limit"
                    /\ unit.text[k].name = archive.listing[i].name

\* the text of the unit is the placeholder of an archive without content,
\* and nothing else
IsPlaceholder ==
    /\ Len(unit.text) = 1
    /\ unit.text[1].t =
          (IF IsRar THEN "rar contains no supported documents or images"
           ELSE "zip contains no supported documents or images")

\* no nested unit processed its member successfully
NoneProcessed ==
    \A k \in 1..Len(unit.nested) : unit.nested[k].raised # "none"

\* C23: after the handler finished on a readable archive within the size
\* limit, the unit's text is exactly the 'contains no supported documents or
\* images' placeholder if and only if no member was successfully processed
\* by a nested unit.
C23_PlaceholderIffNoneProcessed ==
    PassCompleted => (IsPlaceholder <=> NoneProcessed)

\* an archive whose members were an oversized file, annotated, and a file
\* on which the nested unit raised ended with the placeholder
C23_Witness ==
    /\ PassCompleted
    /\ IsPlaceholder
    /\ unit.nested # <<>>
    /\ \E i \in WithinCount : IsOversized(archive.listing[i])

----------------------------------------------------------------------------
(* Document.process and batch_process_folder *)

\* the keys of the HANDLERS table
HANDLERS ==
    {<<".", "p", "d", "f">>, <<".", "t", "x", "t">>,
     <<".", "p", "a", "g", "e", "s">>,
     <<".", "n", "u", "m", "b", "e", "r", "s">>, <<".", "c", "s", "v">>,
     <<".", "j", "s", "o", "n">>, <<".", "p", "y">>,
     <<".", "h", "t", "m", "l">>, <<".", "c", "m", "s">>,
     <<".", "c", "s", "s">>, <<".", "e", "m", "l">>,
     <<".", "m", "b", "o", "x">>, <<".", "r", "t", "f">>, <<".", "m", "d">>,
     <<".", "m", "a", "r", "k", "d", "o", "w", "n">>, <<".", "o", "d", "t">>,
     <<".", "e", "p", "u", "b">>, <<".", "z", "i", "p">>,
     <<".", "r", "a", "r">>}

\* the extensions converted to PDF, or read directly when enabled
OFFICE_EXTS ==
    {<<".", "d", "o", "c", "x">>, <<".", "d", "o", "c">>,
     <<".", "p", "p", "t", "x">>, <<".", "p", "p", "t">>,
     <<".", "x", "l", "s">>, <<".", "x", "l", "s", "x">>}

\* Document.__init__, lines 390-393: a path outside media_dir is taken to be
\* the file of that name in media_dir
DocumentPath(path) ==
    IF StartsWith(path, MediaDir) THEN path
    ELSE JoinPath(MediaDir, Basename(path))

\* a dispatch that finds a handler for every extension
DispatchesAnything(fileName) ==
    IF StartsWith(fileName, <<"~", "$">>)
    THEN "ValueError: Temporary file detected"
    ELSE "none"

\* Document.process, lines 410-450: the exception the dispatch raises, "none"
\* when a handler is found
DispatchError(fileName) ==
    IF StartsWith(fileName, <<"~", "$">>)
    THEN "ValueError: Temporary file detected"
    ELSE IF FileExt(fileName) \in
               SUPPORTED_IMAGE_FORMATS \cup OFFICE_EXTS \cup HANDLERS
    THEN "none"
    ELSE "ValueError: Unsupported file format"

\* Document(dest_path).process() for a staged file: the unit and the files
\* on disk after it.  A handler other than the archive handlers returns with
\* the content of the file or raises.
ProcessDocument(file, destPath, disk, installed) ==
    LET u == NewUnit(Basename(DocumentPath(destPath)), file.size)
    IN IF DispatchError(u.fileName) # "none"
       THEN [unit |-> [u EXCEPT !.raised = DispatchError(u.fileName)],
             fs |-> disk.fs, counter |-> disk.counter]
       ELSE IF FileExt(u.fileName) = ZipExt
       THEN ProcessGenericZipUnit(u, disk, file)
       ELSE IF FileExt(u.fileName) = RarExt
       THEN ProcessGenericRarUnit(u, disk, file, installed)
       ELSE CHOOSE out \in
               {[unit |-> child,
                 fs |-> disk.fs \cup {child.writes[k] :
                                         k \in 1..Len(child.writes)},
                 counter |-> CounterAfter(child, disk.counter)] :
                   child \in {NestedUnit(file, DocumentPath(destPath),
                                         disk.counter, disk.now)}} : TRUE

\* the characters of file names, in code point order
CodePoints ==
    <<"$", "-", ".", "/">> \o DigitChars \o UpperSeq \o <<"_">> \o LowerSeq
    \o <<"~">>

Ord(c) == CHOOSE i \in 1..Len(CodePoints) : CodePoints[i] = c

\* a < b for two strings
RECURSIVE StrLess(_, _)
StrLess(a, b) ==
    IF a = <<>> THEN b # <<>>
    ELSE IF b = <<>> THEN FALSE
    ELSE IF Head(a) = Head(b) THEN StrLess(Tail(a), Tail(b))
    ELSE Ord(Head(a)) < Ord(Head(b))

\* sorted(files) for the files of one directory
RECURSIVE SortedFiles(_)
SortedFiles(files) ==
    IF files = {} THEN <<>>
    ELSE LET first == CHOOSE f \in files :
                         \A g \in files \ {f} : StrLess(f.name, g.name)
         IN <<first>> \o SortedFiles(files \ {first})

\* rel_path = os.path.relpath(os.path.join(root, name), input_folder)
RelPath(file) == JoinPath(file.dir, file.name)

\* dest_path = os.path.join("media_for_processing", rel_path)
StagedPath(file) == JoinPath(MediaDir, RelPath(file))

\* if name.startswith("."): continue
IsHidden(file) == StartsWith(file.name, <<".">>)

Line(t, body) == [t |-> t, body |-> body]

ReportHeader == Line("=== Batch processing report ===", <<>>)

\* lines 1149-1151 and 1176-1177: the lines around one file's section
SectionOpen(file) ==
    <<Line("======================================", <<>>),
      Line("File:", RelPath(file))>>

SectionClose == <<Line("======================================\n", <<>>)>>

\* lines 1166-1175, with preview_chars None
SectionBody(u) ==
    <<Line("Type:", FileExt(u.fileName)), Line("Size:", ToDigits(u.size)),
      Line("----------- Metadata -----------", <<>>),
      Line("----------- Content -----------", <<>>),
      Line("text_content", u.text)>>

\* lines 1155-1164
DocInfo(file, u) ==
    [rel_path |-> RelPath(file), file_ext |-> FileExt(u.fileName),
     file_size |-> u.size, metadata |-> u.meta, text_content |-> u.text,
     absolute_path |-> StagedPath(file), tables |-> u.tables]

\* the state of the run after the try statement of one staged file, lines
\* 1152-1177, given the unit and the disk r that Document.process left
AfterDocument(file, r) ==
    /\ fs' = r.fs
    /\ counter' = r.counter
    /\ handled' = Append(handled, [rel_path |-> RelPath(file),
                                   raised |-> r.unit.raised,
                                   text |-> r.unit.text,
                                   images |-> r.unit.images,
                                   tables |-> r.unit.tables,
                                   writes |-> r.unit.writes])
    /\ docs' = IF r.unit.raised = "none"
               THEN Append(docs, DocInfo(file, r.unit)) ELSE docs
    /\ results' =
          IF returnDocs
          THEN IF r.unit.raised = "none" THEN results
               ELSE Append(results, Line("ERROR:", r.unit.raised))
          ELSE results \o SectionOpen(file)
               \o (IF r.unit.raised = "none" THEN SectionBody(r.unit)
                   ELSE <<Line("ERROR:", r.unit.raised)>>)
               \o SectionClose

----------------------------------------------------------------------------
(* Specification SpecBatch: one call of batch_process_folder *)

MaxFiles == 3

TextMember ==
    [prefix |-> <<"g">>, suffix |-> <<".", "t", "x", "t">>, size |-> 10,
     read |-> "ok", child |-> "ok"]

\* a file of the input tree: where it is, whether shutil.copy2 can read it,
\* what its handler does with it and, for an archive, what it lists
InputFile(dir, name, readable, child, listing) ==
    [dir |-> dir, name |-> name, size |-> 10, readable |-> readable,
     child |-> child, container |-> "ok", listing |-> listing]

InputFiles ==
    {InputFile(<<>>, <<".", "h", ".", "t", "x", "t">>, TRUE, "ok", <<>>),
     InputFile(<<>>, <<"c", ".", "p", "d", "f">>, TRUE, "raise", <<>>),
     InputFile(<<>>, <<"n", ".", "b", "i", "n">>, TRUE, "ok", <<>>),
     InputFile(<<>>, <<"t", ".", "t", "x", "t">>, TRUE, "ok", <<>>),
     InputFile(<<>>, <<"u", ".", "t", "x", "t">>, FALSE, "ok", <<>>),
     InputFile(<<>>, <<"~", "$", "w", ".", "t", "x", "t">>, TRUE, "ok", <<>>),
     InputFile(<<"a">>, <<"d">> \o CsvExt, TRUE, "ok", <<>>),
     InputFile(<<"b">>, <<"d">> \o CsvExt, TRUE, "ok", <<>>),
     InputFile(<<"a">>, <<"x">> \o ZipExt, TRUE, "ok",
               RunOf(TextMember, MAX_ZIP_FILES + 1)),
     InputFile(<<"b">>, <<"x">> \o ZipExt, TRUE, "ok", RunOf(TextMember, 1)),
     InputFile(<<"b">>, <<"y">> \o RarExt, TRUE, "ok", RunOf(TextMember, 1))}

InputTrees == {tree \in SUBSET InputFiles : Cardinality(tree) <= MaxFiles}

\* os.walk(input_folder), top-down: the files of the folder itself, then
\* those of its subdirectories in the order the directory listing gives
\* them, each directory's files sorted by name
WalksOf(tree) ==
    LET FilesIn(dir) == SortedFiles({f \in tree : f.dir = dir})
    IN {FilesIn(<<>>) \o FilesIn(order[1]) \o FilesIn(order[2]) :
           order \in {<<<<"a">>, <<"b">>>>, <<<<"b">>, <<"a">>>>}}

InitBatch ==
    /\ IdleStore
    /\ IdlePath
    /\ IdleName
    /\ IdlePage
    /\ archive = NoArchive
    /\ unit = NewUnit(<<>>, 0)
    /\ archPc = "idle"
    /\ rarfileInstalled \in BOOLEAN
    /\ fs = {}
    /\ walk \in UNION {WalksOf(tree) : tree \in InputTrees}
    /\ walked = 0
    /\ returnDocs \in BOOLEAN
    /\ outputFile \in BOOLEAN
    /\ results = IF returnDocs THEN <<>> ELSE <<ReportHeader>>
    /\ docs = <<>>
    /\ handled = <<>>
    /\ report = NoReport
    /\ returned = <<>>
    /\ batchPc = "walking"

\* lines 1140-1141: a hidden file is passed over
SkipHidden ==
    /\ batchPc = "walking"
    /\ walked < Len(walk)
    /\ IsHidden(walk[walked + 1])
    /\ walked' = walked + 1
    /\ UNCHANGED <<walk, returnDocs, outputFile, results, docs, handled,
                   report, returned, batchPc, rarfileInstalled, fs,
                   notBatchVars>>

\* lines 1145-1147: shutil.copy2 raises on a source it cannot read; the
\* statement is outside the try, so the exception leaves the function
StagingRaises ==
    /\ batchPc = "walking"
    /\ walked < Len(walk)
    /\ ~IsHidden(walk[walked + 1])
    /\ StagedPath(walk[walked + 1]) \notin fs
    /\ ~walk[walked + 1].readable
    /\ batchPc' = "raised"
    /\ UNCHANGED <<walk, walked, returnDocs, outputFile, results, docs,
                   handled, report, returned, rarfileInstalled, fs,
                   notBatchVars>>

\* lines 1142-1177: one file is staged and processed
ProcessFile ==
    /\ batchPc = "walking"
    /\ walked < Len(walk)
    /\ ~IsHidden(walk[walked + 1])
    /\ StagedPath(walk[walked + 1]) \in fs \/ walk[walked + 1].readable
    /\ \E r \in {ProcessDocument(walk[walked + 1],
                                 StagedPath(walk[walked + 1]),
                                 Disk(fs \cup {StagedPath(walk[walked + 1])},
                                      counter, clock),
                                 rarfileInstalled)} :
          AfterDocument(walk[walked + 1], r)
    /\ walked' = walked + 1
    /\ UNCHANGED <<walk, returnDocs, outputFile, report, returned, batchPc,
                   rarfileInstalled, pathVars, clock, issued, pageVars,
                   archive, unit, archPc, otherVars>>

\* lines 1178-1186: the end of the walk
Finish ==
    /\ batchPc = "walking"
    /\ walked = Len(walk)
    /\ report' = IF ~returnDocs /\ outputFile
                 THEN [written |-> TRUE, lines |-> results] ELSE report
    /\ returned' = docs
    /\ batchPc' = "returned"
    /\ UNCHANGED <<walk, walked, returnDocs, outputFile, results, docs,
                   handled, rarfileInstalled, fs, notBatchVars>>

NextBatch == SkipHidden \/ StagingRaises \/ ProcessFile \/ Finish

SpecBatch == InitBatch /\ [][NextBatch]_vars

\* the extraction roots of the archives of the input tree
ArchiveRoots ==
    {ExtractedRoot(<<"u", "n", "z", "i", "p", "p", "e", "d">>, walk[i].name) :
        i \in {j \in 1..Len(walk) : FileExt(walk[j].name) = ZipExt}}
    \cup
    {ExtractedRoot(<<"u", "n", "r", "a", "r", "r", "e", "d">>, walk[i].name) :
        i \in {j \in 1..Len(walk) : FileExt(walk[j].name) = RarExt}}

\* C2 as stated: at every point of a run, the number of files under the
\* extraction root of any archive of the run is at most the member limit.
C2_FilesUnderRootWithinLimit ==
    \A root \in ArchiveRoots :
        Cardinality({f \in fs : StrictlyInside(root, f)}) <= MAX_ZIP_FILES

\* the files the loop does not pass over, in traversal order
NonHidden ==
    LET Visible(f) == ~IsHidden(f)
        kept == SelectSeq(walk, Visible)
    IN [i \in 1..Len(kept) |-> RelPath(kept[i])]

\* C5 as stated: no failure on one file ends the run, and a run that has
\* ended has handed every non-hidden file to the pipeline exactly once, in
\* traversal order.
C5_EveryFileAttemptedOnce ==
    /\ batchPc # "raised"
    /\ batchPc = "returned" =>
          [i \in 1..Len(handled) |-> handled[i].rel_path] = NonHidden

\* the files whose processing failed
FailedFiles ==
    {handled[i].rel_path : i \in {j \in 1..Len(handled) :
                                     handled[j].raised # "none"}}

RecordedInReport(rel) ==
    /\ report.written
    /\ \E i \in 1..(Len(report.lines) - 1) :
          /\ report.lines[i].t = "File:"
          /\ report.lines[i].body = rel
          /\ report.lines[i + 1].t = "ERROR:"

RecordedInDocs(rel) ==
    \E i \in 1..Len(returned) : returned[i].rel_path = rel

\* C6 as stated: when the run has ended, every file whose processing failed
\* is recorded in the output of the mode in use: in the report written, or
\* in the list of records returned under return_docs.
C6_EveryFailureRecorded ==
    batchPc = "returned" =>
        \A rel \in FailedFiles :
            IF returnDocs THEN RecordedInDocs(rel) ELSE RecordedInReport(rel)

\* the files handed to Document.process whose extension has no handler
Undispatchable ==
    {i \in 1..Len(handled) :
        LET name == Basename(handled[i].rel_path)
        IN /\ ~StartsWith(name, <<"~", "$">>)
           /\ FileExt(name) \notin
                 SUPPORTED_IMAGE_FORMATS \cup OFFICE_EXTS \cup HANDLERS}

\* C17: a file whose extension is outside the dispatch table fails with the
\* unsupported-format error, with no text, image or table and nothing
\* written by a handler; the failure stays with that file: the run is not
\* ended by it, and every file after it in the traversal is still processed
\* when the run returns.
C17_UnsupportedFormatConfined ==
    /\ \A i \in Undispatchable :
          /\ handled[i].raised = "ValueError: Unsupported file format"
          /\ handled[i].text = <<>>
          /\ handled[i].images = <<>>
          /\ handled[i].tables = <<>>
          /\ handled[i].writes = <<>>
    /\ batchPc = "raised" =>
          /\ walked < Len(walk)
          /\ ~walk[walked + 1].readable
    /\ (batchPc = "returned" /\ Undispatchable # {}) =>
          [i \in 1..Len(handled) |-> handled[i].rel_path] = NonHidden

\* a run returned after a file without a handler and then a text file, which
\* was processed
C17_Witness ==
    /\ batchPc = "returned"
    /\ \E i \in Undispatchable :
          /\ i < Len(handled)
          /\ handled[i + 1].raised = "none"
          /\ handled[i + 1].text # <<>>


\* the paths the handlers of the run wrote to, in the order of the writes
RECURSIVE WritesUpTo(_)
WritesUpTo(n) ==
    IF n = 0 THEN <<>> ELSE WritesUpTo(n - 1) \o handled[n].writes

\* C18 as stated: during one run no artifact write goes to a path written
\* earlier in the run: the image artifacts, the table artifacts and the
\* extracted member files are written to pairwise distinct paths.
C18_NoArtifactOverwritten ==
    LET written == WritesUpTo(Len(handled))
    IN \A i, j \in 1..Len(written) : i # j => written[i] # written[j]


----------------------------------------------------------------------------
(* The text and CSV handlers, on the content of the files *)

\* one field of a line of CSV text: its value, written in quotes or bare
Field(v, quoted) == [v |-> v, quoted |-> quoted]

\* pd.read_csv: the frame of a CSV text, header first; the values without
\* their quoting
ReadCsv(raw) ==
    [i \in 1..Len(raw) |-> [j \in 1..Len(raw[i]) |-> raw[i][j].v]]

\* df.to_csv(index=False): every value written bare
ToCsv(df) ==
    [i \in 1..Len(df) |-> [j \in 1..Len(df[i]) |-> Field(df[i][j], FALSE)]]

\* df.to_markdown(index=False): the header, then the rows
ToMarkdown(df) == [header |-> Head(df), rows |-> Tail(df)]

\* the content of the files after a write of content c to path
Write(d, path, c) ==
    [q \in DOMAIN d \cup {path} |-> IF q = path THEN c ELSE d[q]]

\* a frame that takes up the rows of the table artifact already on disk
ReadFrameAccumulated(d, filePath) ==
    IF TableArtifact(filePath) \in DOMAIN d
    THEN ReadCsv(d[TableArtifact(filePath)]) \o Tail(ReadCsv(d[filePath]))
    ELSE ReadCsv(d[filePath])

\* _process_csv, line 601: df = pd.read_csv(self.file_path)
ReadFrame(d, filePath) == ReadCsv(d[filePath])

\* _process_csv, line 607: the text of the unit
CsvText(df) == [full |-> ToCsv(df), md |-> ToMarkdown(df)]

----------------------------------------------------------------------------
(* Specification SpecRerun: Document.process called on staged files, some *)
(* of them more than once                                                 *)

MaxReruns == 3

TxtExt == <<".", "t", "x", "t">>

StagedTxt == JoinPath(MediaDir, <<"t">> \o TxtExt)
StagedPng == JoinPath(MediaDir, <<"p", ".", "p", "n", "g">>)
StagedCsvA == JoinPath(JoinPath(MediaDir, <<"a">>), <<"d">> \o CsvExt)
StagedCsvB == JoinPath(JoinPath(MediaDir, <<"b">>), <<"d">> \o CsvExt)

\* the staged files of a run: a text file, an image and two CSV files of
\* the same base name and different content
StagedContents ==
    {[path \in {StagedTxt, StagedPng, StagedCsvA, StagedCsvB} |->
         IF path = StagedTxt THEN txt
         ELSE IF path = StagedPng THEN <<"P", "N", "G">>
         ELSE IF path = StagedCsvA
         THEN <<<<Field("k", q), Field("v", FALSE)>>,
                <<Field("1", FALSE), Field("2", q)>>>>
         ELSE <<<<Field("k", FALSE)>>, <<Field("3", q)>>>>] :
        txt \in {<<>>, <<"h", "i">>}, q \in BOOLEAN}

InitRerun ==
    /\ numbersParserAvailable = TRUE
    /\ IdleLater
    /\ IdlePath
    /\ IdleName
    /\ IdlePage
    /\ IdleBatch
    /\ stored \in StagedContents
    /\ fs = DOMAIN stored
    /\ rarfileInstalled = TRUE
    /\ archive = NoArchive
    /\ unit = NewUnit(<<>>, 0)
    /\ archPc = "idle"

\* the staged files of extension ext a Document can be created for
Staged(exts) ==
    {path \in fs : /\ StartsWith(path, MediaDir)
                   /\ DispatchError(Basename(path)) = "none"
                   /\ FileExt(Basename(path)) \in exts}

\* what Document.process leaves of one unit
Outcome(path, text, images, tables) ==
    [rel_path |-> path, raised |-> "none", text |-> text, images |-> images,
     tables |-> tables, writes |-> images \o tables]

\* lines 534-537: Document._process_txt
ProcessTxt ==
    /\ Len(handled) < MaxReruns
    /\ \E path \in Staged({TxtExt}) :
          handled' = Append(handled,
                            Outcome(path, stored[DocumentPath(path)], <<>>,
                                    <<>>))
    /\ UNCHANGED <<stored, fs, counter, clock, issued, rarfileInstalled,
                   archive, unit, archPc, pathVars, pageVars, walk, walked,
                   returnDocs, outputFile, results, docs, report, returned,
                   batchPc, numbersParserAvailable, laterVars>>

\* lines 600-607: Document._process_csv
ProcessCsv ==
    /\ Len(handled) < MaxReruns
    /\ \E path \in Staged({CsvExt}) :
          \E df \in {ReadFrame(stored, DocumentPath(path))} :
             /\ stored' = Write(stored, TableArtifact(DocumentPath(path)),
                                ToCsv(df))
             /\ fs' = fs \cup {TableArtifact(DocumentPath(path))}
             /\ handled' =
                   Append(handled,
                          Outcome(path, CsvText(df), <<>>,
                                  <<TableArtifact(DocumentPath(path))>>))
    /\ UNCHANGED <<counter, clock, issued, rarfileInstalled, archive, unit,
                   archPc, pathVars, pageVars, walk, walked, returnDocs,
                   outputFile, results, docs, report, returned, batchPc,
                   numbersParserAvailable, laterVars>>

\* lines 539-569: Document._process_image; one name is taken from the
\* naming service
ProcessImage ==
    /\ Len(handled) < MaxReruns
    /\ \E path \in Staged(SUPPORTED_IMAGE_FORMATS) :
          \E out \in {ImageArtifact(DocumentPath(path), counter, clock)} :
             /\ fs' = fs \cup {out}
             /\ counter' = counter + 1
             /\ handled' =
                   Append(handled,
                          Outcome(path,
                                  <<Piece("image description", out, 0,
                                          <<>>)>>,
                                  <<out>>, <<>>))
    /\ UNCHANGED <<stored, clock, issued, rarfileInstalled, archive, unit,
                   archPc, pathVars, pageVars, walk, walked, returnDocs,
                   outputFile, results, docs, report, returned, batchPc,
                   numbersParserAvailable, laterVars>>

NextRerun == ProcessTxt \/ ProcessCsv \/ ProcessImage

SpecRerun == InitRerun /\ [][NextRerun]_vars

\* the calls made on a text or CSV file
TextCalls ==
    {i \in 1..Len(handled) :
        FileExt(Basename(handled[i].rel_path)) \in {TxtExt, CsvExt}}

\* C19: two calls of Document.process on the same staged .txt or .csv file
\* give the same text, whatever the calls made in between left behind: the
\* table copies under tables/, the image artifacts and the naming counter.
C19_RerunGivesSameText ==
    \A i, j \in TextCalls :
        handled[i].rel_path = handled[j].rel_path =>
            handled[i].text = handled[j].text

\* a CSV file was processed twice, and in between another CSV file of the
\* same base name replaced its table artifact
C19_Witness ==
    \E i, j \in TextCalls :
        /\ i < j
        /\ handled[i].rel_path = handled[j].rel_path
        /\ handled[i].tables # <<>>
        /\ \E k \in (i + 1)..(j - 1) :
              /\ handled[k].tables = handled[i].tables
              /\ handled[k].text # handled[i].text

----------------------------------------------------------------------------
(* Document._process_numbers and the zip-bundle fallback *)

XmlSuffix == <<".", "x", "m", "l">>

\* the metadata entries other than the basic ones, as "key: value"
ErrParserUnavailable == "error: numbers_parser_unavailable"
ErrParserFailed == "error: numbers_parser_failed"
ErrPermissionDenied == "error: numbers_permission_denied"
ErrFileNotFound == "error: numbers_file_not_found"
FallbackZipBundle == "fallback: zip_bundle"
PageLimitReached == "page_limit_reached: True"

\* lines 765-766: the entries of the bundle that are XML files and images
XmlFiles(listing) ==
    LET IsXml(name) == EndsWith(name, XmlSuffix) IN SelectSeq(listing, IsXml)

JpgFiles(listing) ==
    LET IsImage(name) == MemberExt(name) \in SUPPORTED_IMAGE_FORMATS
    IN SelectSeq(listing, IsImage)

\* lines 768-772: the artifact path of the first image of the bundle
BundleImage(name, c, now) ==
    JoinPath(ImagesDir,
             GenerateUniqueImageName(c, now,
                                     <<"a", "r", "c", "h", "i", "v", "e">>,
                                     SplitExt(Basename(name))[1],
                                     Tail(SplitExt(name)[2])).name)

\* lines 763-781: Document._process_zip_bundle(expect_xml=True) on unit u of
\* file: the unit, the files on disk and the counter after it, and whether
\* it raised; a file that is not a ZIP container raises at open
ProcessZipBundle(u, disk, file) ==
    IF file.container # "ok"
    THEN [unit |-> u, fs |-> disk.fs, counter |-> disk.counter,
          raised |-> TRUE]
    ELSE LET jpg == JpgFiles(file.listing)
             xml == XmlFiles(file.listing)
             img == BundleImage(jpg[1], disk.counter, disk.now)
             withImage ==
                 IF jpg = <<>> THEN u
                 ELSE [u EXCEPT
                         !.images = @ \o <<img>>,
                         !.writes = @ \o <<img>>,
                         !.text = @ \o <<Piece("image description", img, 0,
                                               <<>>)>>]
             withXml ==
                 [withImage EXCEPT
                    !.text = @ \o <<IF xml = <<>>
                                    THEN Piece("(XML not found in bundle)",
                                               <<>>, 0, <<>>)
                                    ELSE Piece("content", xml[1], 0,
                                               <<>>)>>,
                    !.meta = @ \cup BasicMetadata]
         IN [unit |-> withXml,
             fs |-> disk.fs \cup (IF jpg = <<>> THEN {} ELSE {img}),
             counter |-> disk.counter + (IF jpg = <<>> THEN 0 ELSE 1),
             raised |-> FALSE]

\* lines 654-662: the outcome when numbers-parser is not installed, given
\* the result r of the zip-bundle fallback
FallbackWithoutParser(u, r) ==
    IF r.raised
    THEN [unit |-> [u EXCEPT
                      !.text = <<Piece("(failed to process .numbers: parser unavailable and zip fallback failed)",
                                       <<>>, 0, <<>>)>>,
                      !.meta = @ \cup {ErrParserUnavailable}],
          fs |-> r.fs, counter |-> r.counter]
    ELSE [unit |-> r.unit, fs |-> r.fs, counter |-> r.counter]

\* lines 739-749: the outcome when numbers-parser raised, given the result r
\* of the zip-bundle fallback
FallbackAfterParser(u, r) ==
    LET failed == [u EXCEPT !.meta = @ \cup {ErrParserFailed}]
    IN IF r.raised
       THEN [unit |-> [failed EXCEPT
                         !.text = <<Piece("(failed to process .numbers: parser and zip fallback failed)",
                                          <<>>, 0, <<>>)>>],
             fs |-> r.fs, counter |-> r.counter]
       ELSE [unit |-> [r.unit EXCEPT !.meta = @ \cup {FallbackZipBundle}],
             fs |-> r.fs, counter |-> r.counter]

\* line 715: the table artifact of sheet i of the document
SheetTable(fileName, i) ==
    JoinPath(TablesDir,
             SplitExt(fileName)[1] \o <<"_">> \o ToDigits(i)
             \o <<"_", "T">> \o CsvExt)

\* lines 663-730: the unit after numbers-parser read a document of `sheets`
\* sheets, one table each, under the page limit
ParsedNumbers(u, disk, sheets, limit) ==
    LET done == PagesToProcess(sheets, limit)
        out == [i \in 1..done |-> SheetTable(u.fileName, i)]
    IN [unit |-> [u EXCEPT
                    !.tables = out,
                    !.writes = out,
                    !.text = IF done = 0
                             THEN <<Piece("No readable tables found", <<>>,
                                          0, <<>>)>>
                             ELSE [i \in 1..done |->
                                      Piece("Sheet:", out[i], i, <<>>)],
                    !.meta = BasicMetadata \cup
                             (IF LimitReached(sheets, limit)
                              THEN {PageLimitReached} ELSE {})],
        fs |-> disk.fs \cup {out[i] : i \in 1..done},
        counter |-> disk.counter]

\* lines 646-749: Document._process_numbers
ProcessNumbersUnit(u, disk, file, available, limit) ==
    IF ~available
    THEN CHOOSE out \in
            {FallbackWithoutParser(u, r) :
                r \in {ProcessZipBundle(u, disk, file)}} : TRUE
    ELSE IF file.parse = "ok"
    THEN ParsedNumbers(u, disk, file.sheets, limit)
    ELSE IF file.parse = "not found"
    THEN [unit |-> [u EXCEPT
                      !.meta = {ErrFileNotFound},
                      !.text = <<Piece("(.numbers file not found)", <<>>, 0,
                                       <<>>)>>],
          fs |-> disk.fs, counter |-> disk.counter]
    ELSE IF file.parse = "permission denied"
    THEN [unit |-> [u EXCEPT
                      !.meta = {ErrPermissionDenied},
                      !.text = <<Piece("(permission denied reading .numbers)",
                                       <<>>, 0, <<>>)>>],
          fs |-> disk.fs, counter |-> disk.counter]
    ELSE CHOOSE out \in
            {FallbackAfterParser(u, r) :
                r \in {ProcessZipBundle(u, disk, file)}} : TRUE

----------------------------------------------------------------------------
(* Specification SpecNumbers: one .numbers unit and its handler *)

\* Bound: the entries of a bundle
MaxEntries == 2

BundleEntries ==
    {<<"i">> \o XmlSuffix, <<"p", ".", "j", "p", "g">>,
     <<"q", ".", "P", "N", "G">>, <<"d", ".", "b", "i", "n">>}

\* the listings of up to n distinct entries
RECURSIVE BundlesUpTo(_)
BundlesUpTo(n) ==
    IF n = 0 THEN {<<>>}
    ELSE BundlesUpTo(n - 1) \cup
         {Append(l, entry) :
             l \in {k \in BundlesUpTo(n - 1) : Len(k) = n - 1},
             entry \in BundleEntries}

\* what numbers-parser does with the file, were it called
ParseOutcomes ==
    {[parse |-> "ok", sheets |-> n] : n \in {0, 1, MAX_PAGES_DEFAULT + 1}}
    \cup {[parse |-> o, sheets |-> 0] :
             o \in {"raises", "permission denied", "not found"}}

NumbersFiles ==
    {[fileName |-> <<"n", ".", "n", "u", "m", "b", "e", "r", "s">>,
      size |-> 10, container |-> c.container, listing |-> c.listing,
      parse |-> o.parse, sheets |-> o.sheets] :
        c \in {[container |-> "ok", listing |-> l] :
                  l \in BundlesUpTo(MaxEntries)}
              \cup {[container |-> "corrupt", listing |-> <<>>]},
        o \in ParseOutcomes}

InitNumbers ==
    /\ IdlePath
    /\ IdleName
    /\ IdlePage
    /\ IdleBatch
    /\ stored = NoContent
    /\ IdleLater
    /\ numbersParserAvailable \in BOOLEAN
    /\ rarfileInstalled = TRUE
    /\ archive \in NumbersFiles
    /\ fs = {JoinPath(MediaDir, archive.fileName)}
    /\ unit = NewUnit(archive.fileName, archive.size)
    /\ archPc = "start"

\* Document._process_numbers on the unit
ProcessNumbersFile ==
    /\ archPc = "start"
    /\ \E lim \in {GetPageLimit(limitCache, environ)} :
          \E r \in {ProcessNumbersUnit(unit, Disk(fs, counter, clock),
                                       archive, numbersParserAvailable,
                                       lim.limit)} :
             /\ unit' = r.unit
             /\ fs' = r.fs
             /\ counter' = r.counter
             /\ limitCache' = IF numbersParserAvailable THEN lim.cache
                              ELSE limitCache
    /\ archPc' = "handled"
    /\ UNCHANGED <<rarfileInstalled, archive, pathVars, clock, issued,
                   environ, doc, batchVars, otherVars>>

NextNumbers == ProcessNumbersFile

SpecNumbers == InitNumbers /\ [][NextNumbers]_vars

\* the zip-bundle fallback ran for want of the library
FallbackTaken == archPc # "start" /\ ~numbersParserAvailable

\* C20 as stated: when numbers-parser is absent, the handler takes the
\* zip-bundle fallback and sets a metadata entry marking that the fallback
\* was taken, whether the fallback succeeds or fails.
C20_FallbackFlagged ==
    FallbackTaken => unit.meta \ BasicMetadata # {}

----------------------------------------------------------------------------
(* Specification SpecRace: two callers of the naming service, their steps *)
(* interleaved                                                            *)

\* Bound: the calls the callers make between them
MaxRaceCalls == 4

Callers == {1, 2}

\* a caller outside the function
Outside(made) ==
    [pc |-> "outside", timestamp |-> 0, n |-> 0, made |-> made,
     startedAt |-> 0, readAt |-> 0, wroteAt |-> 0]

\* The shared counter after a read that also stores, as one step
ReadAndStore(shared, local) == local

\* line 205 leaves the attribute as it is: the shared counter after the read
AfterRead(shared, local) == shared

\* the caller's frame changed, and one more step taken
Step(c, frame) ==
    [callers EXCEPT !.frames[c] = frame, !.events = @ + 1]

InitRace ==
    /\ IdlePath
    /\ IdlePage
    /\ IdleArch
    /\ IdleBatch
    /\ stored = NoContent
    /\ numbersParserAvailable = TRUE
    /\ callStack = <<>>
    /\ descent = NoDescent
    /\ cleanup = NoCleanup
    /\ cacheManager = NoCache
    /\ counter = 0
    /\ clock = 0
    /\ issued = <<>>
    /\ callers = [frames |-> [c \in Callers |-> Outside(0)], events |-> 0]

notRaceVars ==
    <<pathVars, pageVars, archVars, batchVars, stored,
      numbersParserAvailable, callStack, descent, cleanup, cacheManager>>

\* the calls begun so far by all callers, returned or in progress
CallsBegun ==
    Len(issued) + Cardinality({c \in Callers : callers.frames[c].pc # "outside"})

\* line 204: timestamp = datetime.now().strftime(...)
ReadClock(c) ==
    LET f == callers.frames[c]
    IN /\ f.pc = "outside"
       /\ CallsBegun < MaxRaceCalls
       /\ callers' = Step(c, [f EXCEPT !.pc = "timed", !.timestamp = clock,
                                       !.startedAt = callers.events + 1])
       /\ UNCHANGED <<counter, clock, issued, notRaceVars>>

\* line 205: counter = getattr(_generate_unique_image_name, 'counter', 0) + 1
ReadCounter(c) ==
    LET f == callers.frames[c]
    IN /\ f.pc = "timed"
       /\ callers' = Step(c, [f EXCEPT !.pc = "read",
                                       !.n = NextCounter(counter),
                                       !.readAt = callers.events + 1])
       /\ counter' = AfterRead(counter, NextCounter(counter))
       /\ UNCHANGED <<clock, issued, notRaceVars>>

\* line 206: _generate_unique_image_name.counter = counter
WriteCounter(c) ==
    LET f == callers.frames[c]
    IN /\ f.pc = "read"
       /\ counter' = f.n
       /\ callers' = Step(c, [f EXCEPT !.pc = "written",
                                       !.wroteAt = callers.events + 1])
       /\ UNCHANGED <<clock, issued, notRaceVars>>

\* lines 207-208: the name is formatted and returned
ReturnName(c) ==
    LET f == callers.frames[c]
        tag == <<"d", "i", "r", "e", "c", "t">>
        base == <<"x">>
        ext == <<"p", "n", "g">>
    IN /\ f.pc = "written"
       /\ issued' = Append(issued,
                           [tag |-> tag, base |-> base, ext |-> ext,
                            at |-> f.timestamp,
                            name |-> FormatImageName(tag,
                                                     Timestamp(f.timestamp),
                                                     f.n,
                                                     RStrip(SafeName(base)),
                                                     ext),
                            n |-> f.n, caller |-> c,
                            startedAt |-> f.startedAt, readAt |-> f.readAt,
                            wroteAt |-> f.wroteAt,
                            doneAt |-> callers.events + 1])
       /\ callers' = Step(c, Outside(f.made + 1))
       /\ UNCHANGED <<counter, clock, notRaceVars>>

NextRace ==
    \E c \in Callers :
        ReadClock(c) \/ ReadCounter(c) \/ WriteCounter(c) \/ ReturnName(c)

SpecRace == InitRace /\ [][NextRace]_vars

\* the steps at which the counter was written so far
WriteSteps ==
    {issued[k].wroteAt : k \in 1..Len(issued)}
    \cup {callers.frames[c].wroteAt :
             c \in {d \in Callers : callers.frames[d].pc = "written"}}

\* both calls read the counter before either wrote it, and they read the
\* same state of it: no third call wrote between the two reads
BothReadFirst(a, b) ==
    /\ a.readAt < b.wroteAt
    /\ b.readAt < a.wroteAt
    /\ \A w \in WriteSteps :
          ~(w > Min(a.readAt, b.readAt) /\ w < b.readAt)
    /\ \A w \in WriteSteps :
          ~(w > Min(a.readAt, b.readAt) /\ w < a.readAt)

\* one call returned before the other began
OneAfterTheOther(a, b) == a.doneAt < b.startedAt \/ b.doneAt < a.startedAt

\* the calls made so far ran one after the other: no returned call overlaps
\* another returned call or a call still in progress
Serialized ==
    /\ \A i, j \in 1..Len(issued) :
          i # j => OneAfterTheOther(issued[i], issued[j])
    /\ \A i \in 1..Len(issued) : \A c \in Callers :
          callers.frames[c].pc # "outside"
              => issued[i].doneAt < callers.frames[c].startedAt

\* C27: the counter update is a read followed by a separate write: two
\* calls that interleave so that both read the counter before either wrote
\* it return the same counter value (and, for the same arguments in the
\* same second, the same name); when the calls of the process run one after
\* the other, the names are pairwise distinct.
C27_InterleavedCallsShareCounterValue ==
    /\ \A i, j \in 1..Len(issued) :
          (i # j /\ BothReadFirst(issued[i], issued[j])) =>
              /\ issued[i].n = issued[j].n
              /\ issued[i].name = issued[j].name
    /\ Serialized
       => \A i, j \in 1..Len(issued) :
             i # j => issued[i].name # issued[j].name

\* two calls by different callers read the counter before either wrote it,
\* and both have returned
C27_Witness ==
    \E i, j \in 1..Len(issued) :
        /\ issued[i].caller # issued[j].caller
        /\ BothReadFirst(issued[i], issued[j])
        /\ issued[i].name = issued[j].name

----------------------------------------------------------------------------
(* Specification SpecDescent: Document.process on nested containers, one  *)
(* frame of the call stack per Document.process call in progress          *)

\* Bound: the containers nested in one another
MaxNesting == 3
\* Bound: the entries of a short listing
MaxEntriesEach == 2
\* Bound: the entries of a listing longer than the member limit
WideListing == 52

EmlExt == <<".", "e", "m", "l">>

PlainNames == {<<"t", ".", "t", "x", "t">>, <<"x", ".", "x", "y", "z">>}
ContainerNames == {<<"z", ".", "z", "i", "p">>, <<"e", ".", "e", "m", "l">>}

\* the names of the entries of a ZIP listing, a directory entry among them
ZipEntryNames == {<<"d", "/">>} \cup PlainNames \cup ContainerNames
\* the file names of the parts of a message, <<>> for a part without one
EmlPartNames == {<<>>} \cup PlainNames \cup ContainerNames

\* Document.process, lines 410-450: the handler the dispatch finds for a
\* file, "none" when it raises
Handler(fileName) ==
    IF DispatchError(fileName) # "none" THEN "none"
    ELSE IF FileExt(fileName) = ZipExt THEN "zip"
    ELSE IF FileExt(fileName) = EmlExt THEN "eml"
    ELSE "other"

Handlers ==
    [fileName \in ZipEntryNames \cup EmlPartNames |-> Handler(fileName)]

IsZip(f) == f.handler = "zip"
IsContainer(f) == f.handler \in {"zip", "eml"}

\* a Document.process call on a file: its handler, the entries of its
\* listing, the entries its loop has passed, and the nesting level of the
\* file
Frame(fileName, len, nesting) ==
    [file |-> fileName, handler |-> Handlers[fileName], len |-> len,
     idx |-> 0, nesting |-> nesting]

\* the listings a container is given: a wide listing only at the top level
ListingLengths(fileName, nesting) ==
    IF Handlers[fileName] \notin {"zip", "eml"} THEN {0}
    ELSE (0..MaxEntriesEach) \cup (IF nesting = 1 THEN {WideListing} ELSE {})

\* the entries a container may hold: the nesting of the input is finite, and
\* a wide listing holds plain files
EntryNames(f) ==
    LET names == IF IsZip(f) THEN ZipEntryNames ELSE EmlPartNames
    IN IF f.nesting < MaxNesting /\ f.len <= MaxEntriesEach
       THEN names
       ELSE names \ ContainerNames

\* a pass that visits every entry of the listing
EntriesListed(f) == f.len

\* lines 992-994 and 899: the entries the loop of the handler passes
EntriesVisited(f) ==
    IF IsZip(f) THEN Min(f.len, MAX_ZIP_FILES) ELSE f.len

\* lines 995-999: the entries of a ZIP listing passed without a Document
ZipPassed ==
    {name \in ZipEntryNames :
        IsDirEntry(name) \/ MemberExt(name) \notin ARCHIVE_ALLOWED_EXTS}

\* lines 995-999 and 905: the entry is passed without a Document for it
Skipped(f, name) ==
    IF IsZip(f) THEN name \in ZipPassed ELSE name = <<>>

InitDescent ==
    /\ IdlePath
    /\ IdleName
    /\ IdlePage
    /\ IdleArch
    /\ IdleBatch
    /\ stored = NoContent
    /\ numbersParserAvailable = TRUE
    /\ callers = NoCallers
    /\ cleanup = NoCleanup
    /\ cacheManager = NoCache
    /\ callStack = <<>>
    /\ descent = [pc |-> "ready", deepest |-> 0]

descentVars == <<callStack, descent>>

notDescentVars ==
    <<pathVars, nameVars, pageVars, archVars, batchVars, stored,
      numbersParserAvailable, callers, cleanup, cacheManager>>

\* the handler of the innermost call is in its loop over the listing
InLoop ==
    /\ descent.pc = "running"
    /\ callStack # <<>>
    /\ IsContainer(callStack[Len(callStack)])
    /\ callStack[Len(callStack)].idx
           < EntriesVisited(callStack[Len(callStack)])

\* Document(path).process() by the caller
Start ==
    /\ descent.pc = "ready"
    /\ \E fileName \in PlainNames \cup ContainerNames :
         \E len \in ListingLengths(fileName, 1) :
            callStack' = <<Frame(fileName, len, 1)>>
    /\ descent' = [pc |-> "running", deepest |-> 1]
    /\ UNCHANGED notDescentVars

\* lines 995-996, 1027-1028, 932-943: the loop passes an entry that is not
\* processed
Skip ==
    /\ InLoop
    /\ LET top == Len(callStack)
           f == callStack[top]
       IN /\ \E name \in EntryNames(f) : Skipped(f, name)
          /\ callStack' = [callStack EXCEPT ![top].idx = f.idx + 1]
    /\ UNCHANGED <<descent, notDescentVars>>

\* lines 1018-1019 and 918-919: child_doc = Document(dest); child_doc.process()
Dispatch ==
    /\ InLoop
    /\ LET top == Len(callStack)
           f == callStack[top]
       IN \E name \in {n \in EntryNames(f) : ~Skipped(f, n)} :
            \E len \in ListingLengths(name, f.nesting + 1) :
               callStack' = Append([callStack EXCEPT ![top].idx = f.idx + 1],
                                   Frame(name, len, f.nesting + 1))
    /\ descent' = [descent EXCEPT
                     !.deepest = IF Len(callStack) + 1 > descent.deepest
                                 THEN Len(callStack) + 1
                                 ELSE descent.deepest]
    /\ UNCHANGED notDescentVars

\* the call returns or raises: the loop of a container is over, another
\* handler is done, or the dispatch found no handler; an exception of a
\* child is caught by the handler that called it (lines 1025 and 927)
Return ==
    /\ descent.pc = "running"
    /\ callStack # <<>>
    /\ ~InLoop
    /\ callStack' = SubSeq(callStack, 1, Len(callStack) - 1)
    /\ descent' =
         IF Len(callStack) > 1 THEN descent
         ELSE [descent EXCEPT
                 !.pc = IF callStack[1].handler = "none"
                        THEN "raised" ELSE "returned"]
    /\ UNCHANGED notDescentVars

NextDescent == Start \/ Skip \/ Dispatch \/ Return

SpecDescent == InitDescent /\ [][NextDescent]_vars

\* a call in progress takes its next step
SpecDescentFair == SpecDescent /\ WF_descentVars(NextDescent)

\* every archive pass in progress has passed at most the member limit of
\* entries, and the calls in progress are no more than the nesting allows
PassesWithinLimit ==
    /\ \A k \in 1..Len(callStack) :
          IsZip(callStack[k]) => callStack[k].idx <= MAX_ZIP_FILES
    /\ Len(callStack) <= MaxNesting + 1

\* a step that starts a call starts one call, on an entry one nesting level
\* below the container whose handler makes it
DescendsOneLevel ==
    Len(callStack') > Len(callStack) =>
        /\ Len(callStack') = Len(callStack) + 1
        /\ callStack'[Len(callStack')].nesting = Len(callStack')
        /\ \A k \in 1..Len(callStack) :
              callStack'[k].nesting = callStack[k].nesting

\* C28: on an input whose container nesting is finite Document.process
\* eventually returns or raises: every archive pass passes at most
\* MAX_ZIP_FILES entries, each nested Document.process call is made on an
\* entry one nesting level down, and the outermost call ends.
C28_ProcessTerminates ==
    /\ []PassesWithinLimit
    /\ [][DescendsOneLevel]_vars
    /\ <>(descent.pc \in {"returned", "raised"})

\* the outermost call has returned after calls nested as deep as the input
\* allows, which only containers reached through an email reach
C28_Witness ==
    /\ descent.pc = "returned"
    /\ descent.deepest = MaxNesting + 1

----------------------------------------------------------------------------
(* Specification SpecCleanup: cleanup_before_batch_processing and the     *)
(* backup-and-delete steps of CleanupUtility.run_interactive              *)

\* Bound: the files of a run whose copy fails
MaxUnreadable == 1

\* the directories of TARGET_DIRECTORIES the runs are given
CleanupDirectories == {ImagesDir, TablesDir}

\* the files that may be on disk under them, in one order os.walk may yield
CleanupFiles ==
    <<<<"t", "a", "b", "l", "e", "s", "/", "e", ".", "c", "s", "v">>,
      <<"t", "a", "b", "l", "e", "s", "/", "a", "/", "d", ".", "c", "s", "v">>,
      <<"t", "a", "b", "l", "e", "s", "/", "b", "/", "d", ".", "c", "s", "v">>,
      <<"i", "m", "a", "g", "e", "s", "/", "d", ".", "c", "s", "v">>>>

\* the lists of directories a run may be given
TargetLists ==
    {<<TablesDir>>, <<ImagesDir>>, <<ImagesDir, TablesDir>>}

\* os.path.relpath(filepath, directory) for a file under the directory
RelativeTo(filepath, directory) ==
    SubSeq(filepath, Len(directory) + 2, Len(filepath))

\* directory.replace('/', '_')
ReplaceSlash(s) == ReplaceChar(s, "/", "_")

\* the name of the backup directory
BackupDir(mode, now) ==
    (IF mode = "programmatic"
     THEN <<"c", "l", "e", "a", "n", "u", "p", "_", "b", "a", "c", "k", "u",
            "p", "_", "p", "r", "o", "g", "r", "a", "m", "m", "a", "t", "i",
            "c", "_">>
     ELSE <<"c", "l", "e", "a", "n", "u", "p", "_", "b", "a", "c", "k", "u",
            "p", "_">>)
    \o Timestamp(now)

\* lines 223-229 (_create_programmatic_backup) and 443-450
\* (CleanupUtility.create_backup): where the copy of a file is put
BackupPath(mode, now, directory, filepath) ==
    IF mode = "programmatic"
    THEN JoinAll(BackupDir(mode, now),
                 <<ReplaceSlash(directory), Basename(filepath)>>)
    ELSE JoinAll(BackupDir(mode, now),
                 <<directory, RelativeTo(filepath, directory)>>)

\* get_directory_info, lines 279-286: the files under the directory, in the
\* order of the walk
RECURSIVE FilesUnder(_, _, _)
FilesUnder(directory, order, disk) ==
    IF order = <<>> THEN <<>>
    ELSE (IF Head(order) \in DOMAIN disk
             /\ StartsWith(Head(order), directory \o <<"/">>)
          THEN <<[directory |-> directory, filepath |-> Head(order)]>>
          ELSE <<>>)
         \o FilesUnder(directory, Tail(order), disk)

\* lines 113-122: the files of the target directories, directory by directory
RECURSIVE ScanDirectories(_, _, _)
ScanDirectories(targets, order, disk) ==
    IF targets = <<>> THEN <<>>
    ELSE FilesUnder(Head(targets), order, disk)
         \o ScanDirectories(Tail(targets), order, disk)

\* lines 220-232 and 438-459: the disk after the copies; a copy that fails
\* is reported and the loop goes on
RECURSIVE BackupFiles(_, _, _, _, _)
BackupFiles(files, disk, unreadable, mode, now) ==
    IF files = <<>> THEN disk
    ELSE LET f == Head(files)
             backupPath == BackupPath(mode, now, f.directory, f.filepath)
             after == IF f.filepath \in DOMAIN disk
                         /\ f.filepath \notin unreadable
                      THEN Write(disk, backupPath, disk[f.filepath])
                      ELSE disk
         IN BackupFiles(Tail(files), after, unreadable, mode, now)

\* os.remove(filepath)
Remove(disk, filepath) == [q \in DOMAIN disk \ {filepath} |-> disk[q]]

\* the files on disk hold their own path: no two files hold the same content
OwnContent(S) == [p \in S |-> p]

Reversed(s) == [i \in 1..Len(s) |-> s[Len(s) + 1 - i]]

InitCleanup ==
    /\ IdlePath
    /\ IdleName
    /\ IdlePage
    /\ IdleArch
    /\ IdleBatch
    /\ numbersParserAvailable = TRUE
    /\ callers = NoCallers
    /\ callStack = <<>>
    /\ descent = NoDescent
    /\ cacheManager = NoCache
    /\ \E S \in SUBSET {CleanupFiles[i] : i \in 1..Len(CleanupFiles)} :
         /\ stored = OwnContent(S)
         /\ \E mode \in {"programmatic", "interactive"},
               createBackup \in BOOLEAN,
               targets \in TargetLists,
               order \in {CleanupFiles, Reversed(CleanupFiles)},
               unreadable \in SUBSET S :
              /\ Cardinality(unreadable) <= MaxUnreadable
              /\ cleanup = [pc |-> "called", mode |-> mode,
                            createBackup |-> createBackup,
                            targets |-> targets, order |-> order,
                            unreadable |-> unreadable, files |-> <<>>,
                            next |-> 1, deleted |-> {}]

notCleanupVars ==
    <<pathVars, nameVars, pageVars, archVars, batchVars,
      numbersParserAvailable, callers, callStack, descent, cacheManager>>

\* lines 110-137 and 576: the scan of the directories
ScanStep ==
    /\ cleanup.pc = "called"
    /\ cleanup' = [cleanup EXCEPT
                     !.pc = "scanned",
                     !.files = ScanDirectories(cleanup.targets, cleanup.order,
                                               stored)]
    /\ UNCHANGED <<stored, notCleanupVars>>

\* lines 139-146 and 603-605: the backup, when requested and there are files
BackupStep ==
    /\ cleanup.pc = "scanned"
    /\ stored' = IF cleanup.createBackup /\ cleanup.files # <<>>
                 THEN BackupFiles(cleanup.files, stored, cleanup.unreadable,
                                  cleanup.mode, clock)
                 ELSE stored
    /\ cleanup' = [cleanup EXCEPT !.pc = "deleting"]
    /\ UNCHANGED notCleanupVars

\* lines 155-160 and 515-519: one turn of the deletion loop
DeleteStep ==
    /\ cleanup.pc = "deleting"
    /\ cleanup.next <= Len(cleanup.files)
    /\ LET filepath == cleanup.files[cleanup.next].filepath
       IN /\ stored' = Remove(stored, filepath)
          /\ cleanup' = [cleanup EXCEPT
                           !.next = cleanup.next + 1,
                           !.deleted = cleanup.deleted \cup
                                       (IF filepath \in DOMAIN stored
                                        THEN {filepath} ELSE {})]
    /\ UNCHANGED notCleanupVars

\* lines 171-180 and 610-612: the run ends
FinishStep ==
    /\ cleanup.pc = "deleting"
    /\ cleanup.next > Len(cleanup.files)
    /\ cleanup' = [cleanup EXCEPT !.pc = "done"]
    /\ UNCHANGED <<stored, notCleanupVars>>

NextCleanup == ScanStep \/ BackupStep \/ DeleteStep \/ FinishStep

SpecCleanup == InitCleanup /\ [][NextCleanup]_vars

\* the files of the backup directory of the run
InBackup ==
    {q \in DOMAIN stored :
        StartsWith(q, BackupDir(cleanup.mode, clock) \o <<"/">>)}

\* C29: when the cleanup runs with a backup requested, every file it has
\* deleted has a copy in the backup directory, from the moment it is deleted
\* to the end of the cleanup.
C29_DeletedFilesAreBackedUp ==
    (cleanup.pc \in {"deleting", "done"} /\ cleanup.createBackup) =>
        \A p \in cleanup.deleted : \E q \in InBackup : stored[q] = p

----------------------------------------------------------------------------
(* Specification SpecCache: TieredCacheManager, its get and set calls and *)
(* the hours that pass between them                                       *)

\* Bound: the hours the runs last
MaxHour == 3

\* the values of CacheConfig.default_ttl_hours the runs are given
TtlHours == {1, 2}

\* the texts looked up: two of them differ in whitespace only
CacheTexts == {<<"a", " ", "b">>, <<" ", "a", " ", " ", "b">>, <<"c">>}

RECURSIVE JoinWords(_)
JoinWords(words) ==
    IF words = <<>> THEN <<>>
    ELSE IF Len(words) = 1 THEN words[1]
    ELSE words[1] \o <<" ">> \o JoinWords(Tail(words))

\* line 74: " ".join(text.split())
NormalizedText(text) ==
    JoinWords(SelectSeq(Split(text, " "), LAMBDA w : w # <<>>))

\* _generate_cache_key, lines 71-80, for one model and one prompt: the hash
\* of the normalized text, taken to be free of collisions
GenerateCacheKey(text) == NormalizedText(text)

CacheKeys == {GenerateCacheKey(text) : text \in CacheTexts}

NoEntries == [key \in {} |-> 0]

\* the result of a get before any get
NoGet == [key |-> <<>>, at |-> 0, hit |-> FALSE, storedAt |-> 0]

\* dict assignment and file write: the entry of the key replaced
PutEntry(entries, key, entry) ==
    [k \in DOMAIN entries \cup {key} |-> IF k = key THEN entry ELSE entries[k]]

\* cache_file.unlink()
DropEntry(entries, key) == [k \in DOMAIN entries \ {key} |-> entries[k]]

\* line 94: cache_key in self.memory_cache
MemoryHit(c, key) == key \in DOMAIN c.memory

\* lines 106-109: age_hours < self.config.default_ttl_hours
DiskEntryFresh(c, key) == c.now - c.disk[key].timestamp < c.ttl

InitCache ==
    /\ IdlePath
    /\ IdleName
    /\ IdlePage
    /\ IdleArch
    /\ IdleBatch
    /\ stored = NoContent
    /\ numbersParserAvailable = TRUE
    /\ callers = NoCallers
    /\ callStack = <<>>
    /\ descent = NoDescent
    /\ cleanup = NoCleanup
    /\ \E enabled \in BOOLEAN, ttl \in TtlHours :
         cacheManager = [pc |-> "ready", enabled |-> enabled, ttl |-> ttl,
                         now |-> 0, memory |-> NoEntries, disk |-> NoEntries,
                         last |-> NoGet]

notCacheVars ==
    <<pathVars, nameVars, pageVars, archVars, batchVars, stored,
      numbersParserAvailable, callers, callStack, descent, cleanup>>

\* TieredCacheManager.set, lines 123-146: the data are stored in memory and,
\* unless the write fails, on disk with the time of the call
CacheSet(text) ==
    LET c == cacheManager
        key == GenerateCacheKey(text)
        data == [storedAt |-> c.now]
    IN /\ c.pc = "ready"
       /\ \E written \in BOOLEAN :
            cacheManager' =
              IF ~c.enabled THEN c
              ELSE [c EXCEPT
                      !.memory = PutEntry(c.memory, key, data),
                      !.disk = IF written
                               THEN PutEntry(c.disk, key,
                                             [timestamp |-> c.now,
                                              data |-> data])
                               ELSE c.disk]
       /\ UNCHANGED notCacheVars

\* TieredCacheManager.get, lines 86-121
CacheGet(text) ==
    LET c == cacheManager
        key == GenerateCacheKey(text)
        miss == [key |-> key, at |-> c.now, hit |-> FALSE, storedAt |-> 0]
        hit(data) == [key |-> key, at |-> c.now, hit |-> TRUE,
                      storedAt |-> data.storedAt]
    IN /\ c.pc = "ready"
       /\ cacheManager' =
            IF ~c.enabled THEN [c EXCEPT !.last = miss]
            ELSE IF MemoryHit(c, key)
            THEN [c EXCEPT !.last = hit(c.memory[key])]
            ELSE IF key \in DOMAIN c.disk
            THEN IF DiskEntryFresh(c, key)
                 THEN [c EXCEPT
                         !.memory = PutEntry(c.memory, key, c.disk[key].data),
                         !.last = hit(c.disk[key].data)]
                 ELSE [c EXCEPT !.disk = DropEntry(c.disk, key),
                                !.last = miss]
            ELSE [c EXCEPT !.last = miss]
       /\ UNCHANGED notCacheVars

\* an hour passes
CacheHour ==
    /\ cacheManager.pc = "ready"
    /\ cacheManager.now < MaxHour
    /\ cacheManager' = [cacheManager EXCEPT !.now = cacheManager.now + 1]
    /\ UNCHANGED notCacheVars

\* TieredCacheManager.__init__, lines 61-69, in a new process: the memory
\* tier is empty, the cache directory is kept
CacheRestart ==
    /\ cacheManager.pc = "ready"
    /\ cacheManager' = [cacheManager EXCEPT !.memory = NoEntries,
                                            !.last = NoGet]
    /\ UNCHANGED notCacheVars

NextCache ==
    \/ \E text \in CacheTexts : CacheSet(text) \/ CacheGet(text)
    \/ CacheHour
    \/ CacheRestart

SpecCache == InitCache /\ [][NextCache]_vars

\* C30: with caching enabled a get never returns an entry stored
\* default_ttl_hours or more before the call, whichever tier holds it, and
\* after a get that misses, no disk file of the key is past its TTL.
C30_NoEntryReturnedPastTtl ==
    LET c == cacheManager
    IN (c.pc = "ready" /\ c.enabled) =>
          /\ c.last.hit => c.last.at - c.last.storedAt < c.ttl
          /\ (c.last.key \in DOMAIN c.disk /\ ~c.last.hit
                /\ c.last.key # <<>>)
               => c.last.at - c.disk[c.last.key].timestamp < c.ttl

====
